---- MODULE Spec2Model ----
(***************************************************************************)
(* Halide generator framework (Generator.h): configuration values          *)
(* (GeneratorParam / ScheduleParam), the generator lifecycle               *)
(* (build_pipeline / call_generate / call_schedule), the generator         *)
(* registry and the GeneratorWrapper.                                      *)
(*                                                                         *)
(* A failed user_assert / internal_assert / user_error is modelled as the  *)
(* handler returning ok = FALSE with the state as it was when the          *)
(* assertion was evaluated (the exception unwinds; nothing after the       *)
(* assertion runs).                                                        *)
(***************************************************************************)
EXTENDS Integers, Sequences, FiniteSets, TLC

VARIABLES
    gens,        \* heap of generator objects, indexed by object identity
    handles,     \* the generator objects callers hold (ids into gens), in order of hand-out
    lastCall,    \* the last call made on a generator: [op, h, ok, pre]
    factories,   \* GeneratorRegistry::factories: name -> factory (NoFactory when absent)
    holds,       \* holds[t]: thread t holds GeneratorRegistry::mutex
    pc,          \* position of each thread inside a registry operation
    op,          \* the arguments and locals of the registry operation of each thread
    ret,         \* what the last completed registry operation of each thread returned
    param,       \* a GeneratorParam used on its own: [decl, value], or NoParam
    lastSet,     \* the last call made on param: [op, ok, pre, arg, text]
    md,          \* the metadata record being emitted for a generator, and what was checked on it
    gio,         \* the Input<> / Output<> members of one generator instance and their owner's values
    statics      \* the function-local statics of RegisterGeneratorAndWrapper<Wrapper>

vars == <<gens, handles, lastCall, factories, holds, pc, op, ret, param, lastSet, md, gio,
         statics>>
genVars == <<gens, handles, lastCall>>
regVars == <<factories, holds, pc, op, ret>>
cfgVars == <<param, lastSet>>
extVars == <<cfgVars, md, gio, statics>>

----------------------------------------------------------------------------
(* Bounds of the model *)

MaxGen == 2      \* generator objects ever allocated
MaxRuns == 2     \* calls of one user hook on one instance that the model follows

----------------------------------------------------------------------------
(* Text: a std::string is a sequence of one-character strings *)

IntMax == 2147483647
IntMin == -IntMax - 1

Digits == {"0", "1", "2", "3", "4", "5", "6", "7", "8", "9"}

DigitVal(c) ==
    CASE c = "0" -> 0 [] c = "1" -> 1 [] c = "2" -> 2 [] c = "3" -> 3
      [] c = "4" -> 4 [] c = "5" -> 5 [] c = "6" -> 6 [] c = "7" -> 7
      [] c = "8" -> 8 [] c = "9" -> 9

\* The characters std::isspace accepts in the "C" locale.  A character that has
\* no escape in a TLA+ string is written as a token: "VT" is the character of
\* code 11, "NUL" the character of code 0.
Whitespace == {" ", "\t", "\n", "VT", "\f", "\r"}

\* std::istream's skipws: leading whitespace is discarded before a formatted extraction
RECURSIVE SkipWs(_)
SkipWs(s) == IF s # <<>> /\ Head(s) \in Whitespace THEN SkipWs(Tail(s)) ELSE s

\* The digits num_get accumulates: [n digits read, acc = minus the magnitude,
\* over = the magnitude left the range of int, rest = what is left in the stream]
RECURSIVE ScanDigits(_, _, _, _)
ScanDigits(s, n, acc, over) ==
    IF s = <<>> \/ Head(s) \notin Digits
    THEN [n |-> n, acc |-> acc, over |-> over, rest |-> s]
    ELSE LET d == DigitVal(Head(s))
             lim == IntMin \div 10
             fits == ~over /\ (acc > lim \/ (acc = lim /\ d <= 8))
         IN  ScanDigits(Tail(s), n + 1, IF fits THEN acc * 10 - d ELSE acc, ~fits)

\* iss >> t for T = int, then the test !iss.fail() && iss.get() == EOF
ParseInt(text) ==
    LET s0 == SkipWs(text)
        neg == s0 # <<>> /\ Head(s0) = "-"
        signed == s0 # <<>> /\ Head(s0) \in {"-", "+"}
        sc == ScanDigits(IF signed THEN Tail(s0) ELSE s0, 0, 0, FALSE)
        over == sc.over \/ (~neg /\ sc.acc = IntMin)
        fail == sc.n = 0 \/ over
    IN  [ok |-> ~fail /\ sc.rest = <<>>,
         value |-> IF fail \/ sc.rest # <<>> THEN 0
                   ELSE IF neg THEN sc.acc ELSE -sc.acc]

TextTrue == <<"t", "r", "u", "e">>
TextFalse == <<"f", "a", "l", "s", "e">>

----------------------------------------------------------------------------
(* Generator types the framework is exercised with *)

\* Wrappee: defines generate() and schedule()  (test/generator/wraptest_generator.cpp)
\* XorImage: defines build()                   (the example of the header's file comment,
\*                                              its channels declared with min and max)
GeneratorTypes == {"Wrappee", "XorImage"}

HasBuildMethod(type) == type = "XorImage"

\* Classes a user can write as Generator<T>, by the methods they define
CandidateTypes ==
    {"XorImage", "Wrappee", "Both", "BuildGenerate", "BuildSchedule",
     "GenerateOnly", "ScheduleOnly", "NoMethod"}

Methods(type) ==
    CASE type = "XorImage" -> {"build"}
      [] type = "Wrappee" -> {"generate", "schedule"}
      [] type = "Both" -> {"build", "generate", "schedule"}
      [] type = "BuildGenerate" -> {"build", "generate"}
      [] type = "BuildSchedule" -> {"build", "schedule"}
      [] type = "GenerateOnly" -> {"generate"}
      [] type = "ScheduleOnly" -> {"schedule"}
      [] OTHER -> {}

ImplFunctions == {"build_pipeline_impl", "call_generate_impl", "call_schedule_impl"}

\* The overloads of an _impl function that enable_if leaves for a class: the
\* variant for build(), and the one for generate() (for schedule(), in
\* call_schedule_impl)
Overloads(fn, methods) ==
    (IF "build" \in methods THEN {"build"} ELSE {})
        \cup (IF fn = "call_schedule_impl"
              THEN (IF "schedule" \in methods THEN {"schedule"} ELSE {})
              ELSE (IF "generate" \in methods THEN {"generate"} ELSE {}))

\* Mutant: a call with two viable overloads is taken as one of them
Resolves_Any(fn, methods) == Overloads(fn, methods) # {}

\* The unqualified call in build_pipeline(), call_generate(), call_schedule()
\* compiles when exactly one overload is viable
Resolves(fn, methods) == Cardinality(Overloads(fn, methods)) = 1

\* Generator<T> compiles: every call resolves, and the build() variant of
\* build_pipeline_impl has static_assert(!has_schedule_method<T2>::value)
Compiles(methods) ==
    /\ \A fn \in ImplFunctions : Resolves(fn, methods)
    /\ "build" \in methods => "schedule" \notin methods

\* The targets a build can name, and the text of each (Target::to_string)
Targets == {"host", "arm-32-android"}
TxtHost == <<"h", "o", "s", "t">>
TxtArm == <<"a", "r", "m", "-", "3", "2", "-", "a", "n", "d", "r", "o", "i", "d">>
TxtNoTarget == <<"n", "o">>

get_host_target == "host"

\* GeneratorBase::target, the GeneratorParam<Target> every generator has
TargetDecl ==
    [kind |-> "target", def |-> get_host_target, min |-> "", max |-> "", schedule |-> FALSE]

\* The GeneratorParams a type declares: name -> [kind, def, min, max, schedule]
GeneratorParamDecls(type) ==
    IF type = "Wrappee"
    THEN [n \in {"array_count", "vectorize", "target"} |->
            CASE n = "array_count" ->
                    [kind |-> "int", def |-> 2, min |-> IntMin, max |-> IntMax, schedule |-> FALSE]
              [] n = "vectorize" ->
                    [kind |-> "bool", def |-> TRUE, min |-> FALSE, max |-> TRUE, schedule |-> TRUE]
              [] OTHER -> TargetDecl]
    ELSE [n \in {"channels", "target"} |->
            IF n = "channels"
            THEN [kind |-> "int", def |-> 3, min |-> 1, max |-> 4, schedule |-> FALSE]
            ELSE TargetDecl]

\* Mutant: every GeneratorParam reports itself a schedule-stage value
is_schedule_param_Always(decl) == TRUE

\* ScheduleParam::is_schedule_param overrides GeneratorParamBase::is_schedule_param
is_schedule_param(decl) == decl.schedule

----------------------------------------------------------------------------
(* Configuration values *)

\* The kinds whose class is GeneratorParam_Arithmetic<T> with a range test that
\* can fail: T = int ("int") and T = int8_t ("int8", a signed char)
Arithmetic == {"int", "int8"}

\* The range test is left out for bool, where lowest() = false and max() = true
InRange(decl, v) == decl.kind \in Arithmetic => (v >= decl.min /\ v <= decl.max)

\* Mutant: the value is stored before the range is tested
GeneratorParam_set_CommitFirst(decl, cur, new_value) ==
    [ok |-> InRange(decl, new_value), value |-> new_value]

\* GeneratorParam_Arithmetic::set: the range test, then GeneratorParamImpl::set;
\* the other kinds use GeneratorParamImpl::set, which stores any value
GeneratorParam_set(decl, cur, new_value) ==
    IF decl.kind \in Arithmetic /\ ~(new_value >= decl.min /\ new_value <= decl.max)
    THEN [ok |-> FALSE, value |-> cur]
    ELSE [ok |-> TRUE, value |-> new_value]

\* The code of a character, for the characters the model writes to an int8_t
CharCode(c) ==
    CASE c = "NUL" -> 0 [] c = "\t" -> 9 [] c = "\n" -> 10 [] c = "VT" -> 11
      [] c = "\f" -> 12 [] c = "\r" -> 13 [] c = " " -> 32 [] c = "+" -> 43
      [] c = "-" -> 45 [] c \in Digits -> 48 + DigitVal(c) [] c = "A" -> 65
      [] c = "x" -> 120

CharOf(code) ==
    CHOOSE c \in Whitespace \cup Digits \cup {"NUL", "+", "-", "A", "x"} : CharCode(c) = code

\* iss >> t for T = int8_t extracts one character, after skipws; then the
\* test !iss.fail() && iss.get() == EOF
ParseChar(text) ==
    LET s0 == SkipWs(text)
    IN  IF s0 = <<>> \/ Tail(s0) # <<>> THEN [ok |-> FALSE, value |-> 0]
        ELSE [ok |-> TRUE, value |-> CharCode(Head(s0))]

DigitChar(d) == CHOOSE c \in Digits : DigitVal(c) = d

\* oss << value for T = int: the decimal digits of n >= 0
RECURSIVE DecText(_)
DecText(n) ==
    IF n < 10 THEN <<DigitChar(n)>> ELSE Append(DecText(n \div 10), DigitChar(n % 10))

IntToText(v) ==
    IF v >= 0 THEN DecText(v)
    ELSE IF v = IntMin THEN <<"-">> \o Append(DecText(IntMax \div 10), "8")
    ELSE <<"-">> \o DecText(-v)

\* Mutant: the first entry of the map is taken, whatever its name
enum_find_First(enum_map, s) ==
    IF enum_map = <<>> THEN [ok |-> FALSE, value |-> 0]
    ELSE [ok |-> TRUE, value |-> enum_map[1][2]]

\* enum_map.find(new_value_string): the entry of that exact name, or end().
\* A std::map<std::string, T> is the sequence of its entries in key order.
enum_find(enum_map, s) ==
    IF \E i \in DOMAIN enum_map : enum_map[i][1] = s
    THEN [ok |-> TRUE,
          value |-> enum_map[CHOOSE i \in DOMAIN enum_map : enum_map[i][1] = s][2]]
    ELSE [ok |-> FALSE, value |-> 0]

\* enum_to_string: the first entry in key order whose value is t, else user_error
enum_to_string(enum_map, t) ==
    LET hits == {i \in DOMAIN enum_map : enum_map[i][2] = t}
    IN  IF hits = {} THEN [ok |-> FALSE, text |-> <<>>]
        ELSE [ok |-> TRUE,
              text |-> enum_map[CHOOSE i \in hits : \A j \in hits : i <= j][1]]

\* Target(const std::string &): the text names a target or the constructor fails
ParseTarget(text) ==
    IF text = TxtHost THEN [ok |-> TRUE, value |-> "host"]
    ELSE IF text = TxtArm THEN [ok |-> TRUE, value |-> "arm-32-android"]
    ELSE [ok |-> FALSE, value |-> ""]

\* GeneratorParam_Arithmetic / _Bool / _Enum / _Target ::set_from_string
set_from_string(decl, cur, text) ==
    IF decl.kind = "target"
    THEN LET t == ParseTarget(text)
         IN  IF ~t.ok THEN [ok |-> FALSE, value |-> cur]
             ELSE GeneratorParam_set(decl, cur, t.value)
    ELSE IF decl.kind = "bool"
    THEN IF text = TextTrue THEN GeneratorParam_set(decl, cur, TRUE)
         ELSE IF text = TextFalse THEN GeneratorParam_set(decl, cur, FALSE)
         ELSE [ok |-> FALSE, value |-> cur]
    ELSE IF decl.kind = "enum"
    THEN LET it == enum_find(decl.enum_map, text)
         IN  IF ~it.ok THEN [ok |-> FALSE, value |-> cur]
             ELSE GeneratorParam_set(decl, cur, it.value)
    ELSE LET p == IF decl.kind = "int8" THEN ParseChar(text) ELSE ParseInt(text)
         IN  IF ~p.ok THEN [ok |-> FALSE, value |-> cur]
             ELSE GeneratorParam_set(decl, cur, p.value)

\* GeneratorParam_Arithmetic / GeneratorParam_Bool / GeneratorParam_Enum ::to_string
to_string(decl, value) ==
    CASE decl.kind = "bool" -> [ok |-> TRUE, text |-> IF value THEN TextTrue ELSE TextFalse]
      [] decl.kind = "enum" -> enum_to_string(decl.enum_map, value)
      [] decl.kind = "int8" -> [ok |-> TRUE, text |-> <<CharOf(value)>>]
      [] decl.kind = "target" -> [ok |-> TRUE, text |-> IF value = "host" THEN TxtHost ELSE TxtArm]
      [] OTHER -> [ok |-> TRUE, text |-> IntToText(value)]

\* The constructors: GeneratorParam_Arithmetic calls set(value), which can fail;
\* GeneratorParam_Enum stores the value it is given
GeneratorParam_ctor(decl, value) == GeneratorParam_set(decl, value, value)

----------------------------------------------------------------------------
(* Generator instances *)

Hooks == {"build", "generate", "schedule"}

\* Generator<T>::create: new T(), every member at its declared initial value
NewGenerator(type) ==
    [type |-> type,
     build_pipeline_called |-> FALSE,
     generate_called |-> FALSE,
     schedule_called |-> FALSE,
     gp |-> [n \in DOMAIN GeneratorParamDecls(type) |-> GeneratorParamDecls(type)[n].def],
     wrapper_class_name |-> "",
     runs |-> [k \in Hooks |-> 0],     \* completed runs of the user's build/generate/schedule
     inputs_set |-> FALSE,             \* set_inputs() has bound the inputs
     generate_saw |-> <<>>,            \* what each generate() ran with
     schedule_saw |-> <<>>,            \* the GeneratorParam values each schedule() ran with
     first_output_realized |-> FALSE,  \* get_first_output().realize() was called
     pipelines |-> <<>>]               \* the Pipeline objects build_pipeline returned

\* What a hook finds when it runs: the GeneratorParam values, and whether the
\* inputs are bound
Saw(g) == [gp |-> g.gp, inputs_set |-> g.inputs_set]

Failed(g) == [ok |-> FALSE, g |-> g]
Done(g) == [ok |-> TRUE, g |-> g]

\* Mutant: generate() may be run again on an instance that has generated
call_generate_impl_NoOnceCheck(g) ==
    IF HasBuildMethod(g.type) THEN Failed(g)
    ELSE Done([g EXCEPT !.runs["generate"] = @ + 1, !.generate_called = TRUE,
                        !.generate_saw = Append(@, Saw(g))])

\* Mutant: the build() variant of call_generate_impl runs like the other
call_generate_impl_BuildVariantRuns(g) ==
    IF g.generate_called THEN Failed(g)
    ELSE Done([g EXCEPT !.runs["generate"] = @ + 1, !.generate_called = TRUE,
                        !.generate_saw = Append(@, Saw(g))])

\* Generator<T>::call_generate_impl, both variants
call_generate_impl(g) ==
    IF HasBuildMethod(g.type) THEN Failed(g)
    ELSE IF g.generate_called THEN Failed(g)
    ELSE Done([g EXCEPT !.runs["generate"] = @ + 1, !.generate_called = TRUE,
                        !.generate_saw = Append(@, Saw(g))])

\* Mutant: schedule() does not require generate() to have run
call_schedule_impl_NoGenerateCheck(g) ==
    IF HasBuildMethod(g.type) THEN Failed(g)
    ELSE IF g.schedule_called THEN Failed(g)
    ELSE Done([g EXCEPT !.runs["schedule"] = @ + 1, !.schedule_called = TRUE,
                        !.schedule_saw = Append(@, g.gp)])

\* Generator<T>::call_schedule_impl, both variants
call_schedule_impl(g) ==
    IF HasBuildMethod(g.type) THEN Failed(g)
    ELSE IF ~g.generate_called THEN Failed(g)
    ELSE IF g.schedule_called THEN Failed(g)
    ELSE Done([g EXCEPT !.runs["schedule"] = @ + 1, !.schedule_called = TRUE,
                        !.schedule_saw = Append(@, g.gp)])

\* Mutant: build_pipeline() does not test build_pipeline_called
build_pipeline_impl_NoOnceCheck(g) ==
    IF HasBuildMethod(g.type)
    THEN Done([g EXCEPT !.runs["build"] = @ + 1,
                        !.build_pipeline_called = TRUE,
                        !.pipelines = Append(@, g.gp)])
    ELSE Done([g EXCEPT !.runs["generate"] = @ + 1, !.generate_called = TRUE,
                        !.generate_saw = Append(@, Saw(g)),
                        !.runs["schedule"] = @ + 1, !.schedule_called = TRUE,
                        !.schedule_saw = Append(@, g.gp),
                        !.build_pipeline_called = TRUE,
                        !.pipelines = Append(@, g.gp)])

\* Mutant: build_pipeline_called is set before the phases run, and stays set
\* when one of them fails
build_pipeline_impl_FlagFirst(g) ==
    IF g.build_pipeline_called THEN Failed(g)
    ELSE IF HasBuildMethod(g.type)
    THEN Done([g EXCEPT !.runs["build"] = @ + 1,
                        !.build_pipeline_called = TRUE,
                        !.pipelines = Append(@, g.gp)])
    ELSE LET g0 == [g EXCEPT !.build_pipeline_called = TRUE]
             r1 == call_generate_impl(g0)
         IN  IF ~r1.ok THEN r1
             ELSE LET r2 == call_schedule_impl(r1.g)
                  IN  IF ~r2.ok THEN r2
                      ELSE Done([r2.g EXCEPT !.pipelines = Append(@, r2.g.gp)])

\* Generator<T>::build_pipeline_impl, both variants; the Pipeline returned is
\* recorded by the configuration values it was built from
build_pipeline_impl(g) ==
    IF g.build_pipeline_called THEN Failed(g)
    ELSE IF HasBuildMethod(g.type)
    THEN Done([g EXCEPT !.runs["build"] = @ + 1,
                        !.build_pipeline_called = TRUE,
                        !.pipelines = Append(@, g.gp)])
    ELSE LET r1 == call_generate_impl(g)
         IN  IF ~r1.ok THEN r1
             ELSE LET r2 == call_schedule_impl(r1.g)
                  IN  IF ~r2.ok THEN r2
                      ELSE Done([r2.g EXCEPT !.build_pipeline_called = TRUE,
                                             !.pipelines = Append(@, r2.g.gp)])

\* Mutant: a Module is produced only of an instance that was built before
build_module_NeedsBuilt(g) ==
    IF ~(g.schedule_called \/ g.build_pipeline_called) THEN Failed(g)
    ELSE Done([g EXCEPT !.pipelines = Append(@, g.gp)])

\* GeneratorBase::build_module: "Call build() and produce a Module for the
\* result"; the Module, with its metadata, is made of the Pipeline returned
build_module(g) == build_pipeline_impl(g)

\* Lifecycle state of an instance
Unbuilt(g) == ~g.generate_called /\ ~g.schedule_called /\ ~g.build_pipeline_called
Built(g) == g.schedule_called \/ g.build_pipeline_called
ParamsApplied(g) == g.generate_called /\ ~Built(g)

\* The overrides of a call, a std::map<std::string, std::string>: a sequence of
\* <<name, text>> in key order, which is the order std::map iterates in
Key(kv) == kv[1]
Val(kv) == kv[2]

\* Mutant: no override is refused for the lifecycle state of the instance
Frozen_Never(g, kv) == FALSE

\* An override the lifecycle state of g forbids
Frozen(g, kv) ==
    \/ Built(g)
    \/ ~Unbuilt(g) /\ ~is_schedule_param(GeneratorParamDecls(g.type)[Key(kv)])

RECURSIVE ApplyParams(_, _)
ApplyParams(g, params) ==
    IF params = <<>> THEN Done(g)
    ELSE LET kv == Head(params)
             r == set_from_string(GeneratorParamDecls(g.type)[Key(kv)], g.gp[Key(kv)], Val(kv))
         IN  IF ~r.ok THEN Failed(g)
             ELSE ApplyParams([g EXCEPT !.gp[Key(kv)] = r.value], Tail(params))

\* GeneratorBase::set_generator_param_values: every name must be a declared
\* GeneratorParam and legal in the instance's lifecycle state, and only then
\* are the values set, each through set_from_string
set_generator_param_values(g, params) ==
    IF \E i \in DOMAIN params : Key(params[i]) \notin DOMAIN g.gp THEN Failed(g)
    ELSE IF \E i \in DOMAIN params : Frozen(g, params[i]) THEN Failed(g)
    ELSE ApplyParams(g, params)

\* Mutant: the schedule() hook runs before the overrides are applied
GeneratorWrapper_schedule_HookFirst(g, schedule_params) ==
    LET r == call_schedule_impl(g)
    IN  IF ~r.ok THEN r ELSE set_generator_param_values(r.g, schedule_params)

\* GeneratorWrapper::schedule
GeneratorWrapper_schedule(g, schedule_params) ==
    LET r == set_generator_param_values(g, schedule_params)
    IN  IF ~r.ok THEN r ELSE call_schedule_impl(r.g)

\* The overloads of GeneratorWrapper::realize: (std::vector<int32_t> sizes),
\* (Args&&... args) and (Dst dst)
RealizeOverloads == {"sizes", "args", "dst"}

\* GeneratorWrapper::check_scheduled
check_scheduled(g) == g.schedule_called

\* Mutant: realize(Dst) goes to the output without check_scheduled
GeneratorWrapper_realize_DstUnchecked(g, overload) ==
    IF overload # "dst" /\ ~check_scheduled(g) THEN Failed(g)
    ELSE Done([g EXCEPT !.first_output_realized = TRUE])

\* GeneratorWrapper::realize, every overload: check_scheduled("realize"), then
\* get_first_output().realize(...)
GeneratorWrapper_realize(g, overload) ==
    IF ~check_scheduled(g) THEN Failed(g)
    ELSE Done([g EXCEPT !.first_output_realized = TRUE])

----------------------------------------------------------------------------
(* Override maps the calls are made with *)

Txt1 == <<"1">>
Txt3 == <<"3">>
Txt9 == <<"9">>
TxtX == <<"3", "x">>

Overrides ==
    { <<>>,
      << <<"array_count", Txt3>> >>,
      << <<"vectorize", TextFalse>> >>,
      << <<"array_count", Txt1>>, <<"vectorize", TextFalse>> >>,
      << <<"array_count", TxtX>> >>,
      << <<"channels", Txt9>> >>,
      << <<"channels", Txt1>> >>,
      << <<"bogus", Txt1>> >> }

----------------------------------------------------------------------------
(* Calls on the generator a caller holds *)

NoCall == [op |-> "none", h |-> 0, ok |-> TRUE, pre |-> <<>>, args |-> <<>>]

Tracked(g) == \A k \in Hooks : g.runs[k] < MaxRuns /\ Len(g.pipelines) < MaxRuns

Call(h, name, args, r) ==
    /\ gens' = [gens EXCEPT ![handles[h]] = r.g]
    /\ lastCall' = [op |-> name, h |-> h, ok |-> r.ok, pre |-> gens[handles[h]], args |-> args]
    /\ UNCHANGED handles

CallGenerate(h) ==
    /\ Tracked(gens[handles[h]])
    /\ Call(h, "call_generate", <<>>, call_generate_impl(gens[handles[h]]))
    /\ UNCHANGED <<regVars, extVars>>

CallSchedule(h) ==
    /\ Tracked(gens[handles[h]])
    /\ Call(h, "call_schedule", <<>>, call_schedule_impl(gens[handles[h]]))
    /\ UNCHANGED <<regVars, extVars>>

BuildPipeline(h) ==
    /\ Tracked(gens[handles[h]])
    /\ Call(h, "build_pipeline", <<>>, build_pipeline_impl(gens[handles[h]]))
    /\ UNCHANGED <<regVars, extVars>>

SetGeneratorParamValues(h, params) ==
    /\ Tracked(gens[handles[h]])
    /\ Call(h, "set_generator_param_values", params,
            set_generator_param_values(gens[handles[h]], params))
    /\ UNCHANGED <<regVars, extVars>>

\* realize() on the GeneratorWrapper of the instance
WrapperRealize(h, overload) ==
    /\ Tracked(gens[handles[h]])
    /\ gens[handles[h]].generate_called
    /\ Call(h, "realize", <<overload>>, GeneratorWrapper_realize(gens[handles[h]], overload))
    /\ UNCHANGED <<regVars, extVars>>

\* A class is compiled and, if it compiles, an instance of it is made
Instantiate(type) ==
    /\ Len(gens) < MaxGen
    /\ lastCall' = [op |-> "compile", h |-> 0, ok |-> Compiles(Methods(type)),
                    pre |-> <<>>, args |-> <<type>>]
    /\ IF Compiles(Methods(type))
       THEN /\ gens' = Append(gens, NewGenerator(type))
            /\ handles' = Append(handles, Len(gens) + 1)
       ELSE UNCHANGED <<gens, handles>>
    /\ UNCHANGED <<regVars, extVars>>

BuildModule(h) ==
    /\ Tracked(gens[handles[h]])
    /\ Call(h, "build_module", <<>>, build_module(gens[handles[h]]))
    /\ UNCHANGED <<regVars, extVars>>

\* A GeneratorWrapper exists once its constructor's call_generate() has returned
WrapperSchedule(h, params) ==
    /\ Tracked(gens[handles[h]])
    /\ gens[handles[h]].generate_called
    /\ Call(h, "wrapper_schedule", params,
            GeneratorWrapper_schedule(gens[handles[h]], params))
    /\ UNCHANGED <<regVars, extVars>>

----------------------------------------------------------------------------
(* Factories *)

\* Mutant: the create function hands out one static object per generator type
create_func_Singleton(heap, type) ==
    IF \E i \in DOMAIN heap : heap[i].type = type
    THEN [heap |-> heap, id |-> CHOOSE i \in DOMAIN heap : heap[i].type = type]
    ELSE [heap |-> Append(heap, NewGenerator(type)), id |-> Len(heap) + 1]

\* GeneratorCreateFunc, i.e. Generator<T>::create: a new object on the heap
create_func(heap, type) ==
    [heap |-> Append(heap, NewGenerator(type)), id |-> Len(heap) + 1]

\* GeneratorBase::set_wrapper_class_name
set_wrapper_class_name(g, n) ==
    IF g.wrapper_class_name # "" THEN Failed(g)
    ELSE Done([g EXCEPT !.wrapper_class_name = n])

\* Mutant: the generator is returned although applying the overrides failed
SimpleGeneratorFactory_create_Unchecked(heap, fac, params) ==
    LET a == create_func(heap, fac.create_func)
        r1 == set_wrapper_class_name(a.heap[a.id], fac.wrapper_class_name)
        r2 == set_generator_param_values(r1.g, params)
    IN  [ok |-> TRUE, heap |-> [a.heap EXCEPT ![a.id] = r2.g], id |-> a.id]

\* SimpleGeneratorFactory::create. When an assertion fails the unique_ptr g is
\* destroyed during unwinding and nothing is returned.
SimpleGeneratorFactory_create(heap, fac, params) ==
    LET a == create_func(heap, fac.create_func)
        r1 == set_wrapper_class_name(a.heap[a.id], fac.wrapper_class_name)
        r2 == set_generator_param_values(r1.g, params)
    IN  IF r1.ok /\ r2.ok
        THEN [ok |-> TRUE, heap |-> [a.heap EXCEPT ![a.id] = r2.g], id |-> a.id]
        ELSE [ok |-> FALSE, heap |-> heap, id |-> 0]

\* The factories registered: RegisterGeneratorAndWrapper for Wrappee
\* (wraptest_generator.cpp), RegisterGenerator for a type with build()
NoFactory == [create_func |-> "none", wrapper_class_name |-> ""]

Factories ==
    { [create_func |-> "Wrappee", wrapper_class_name |-> "WrapNS1::WrapNS2::Wrapper"],
      [create_func |-> "XorImage", wrapper_class_name |-> ""] }

----------------------------------------------------------------------------
(* The generator registry *)

Names == {"a", "b"}
Threads == {"t1", "t2"}

Registered(map) == {n \in DOMAIN map : map[n] # NoFactory}

\* Mutant: registering a name again replaces its factory
register_factory_Overwrite(map, name, factory) ==
    [ok |-> TRUE, err |-> "", map |-> [map EXCEPT ![name] = factory]]

\* GeneratorRegistry::register_factory, under the lock
register_factory(map, name, factory) ==
    IF name \in Registered(map)
    THEN [ok |-> FALSE, err |-> "DuplicateName", map |-> map]
    ELSE [ok |-> TRUE, err |-> "", map |-> [map EXCEPT ![name] = factory]]

\* Mutant: unregistering a name empties the map
unregister_factory_All(map, name) ==
    [ok |-> TRUE, err |-> "", map |-> [n \in DOMAIN map |-> NoFactory]]

\* GeneratorRegistry::unregister_factory, under the lock
unregister_factory(map, name) ==
    [ok |-> TRUE, err |-> "", map |-> [map EXCEPT ![name] = NoFactory]]

\* GeneratorRegistry::enumerate, under the lock
enumerate(map) == Registered(map)

\* The std::vector<std::string> enumerate() returns: the keys of the std::map,
\* which iterates in key order
NameOrder == <<"a", "b">>
enumerate_vector(map) == SelectSeq(NameOrder, LAMBDA n : n \in Registered(map))

\* Mutant: a missing name yields the factory of some registered name
lookup_Any(map, name) ==
    IF name \in Registered(map) THEN [ok |-> TRUE, err |-> "", fac |-> map[name]]
    ELSE IF Registered(map) # {}
    THEN [ok |-> TRUE, err |-> "", fac |-> map[CHOOSE n \in Registered(map) : TRUE]]
    ELSE [ok |-> FALSE, err |-> "NotFound", fac |-> NoFactory]

\* GeneratorRegistry::create, the lookup under the lock
lookup(map, name) ==
    IF name \in Registered(map)
    THEN [ok |-> TRUE, err |-> "", fac |-> map[name]]
    ELSE [ok |-> FALSE, err |-> "NotFound", fac |-> NoFactory]

\* std::mutex::lock: thread t gets the mutex when no thread holds it
mutex_lock(t) == \A u \in Threads : ~holds[u]

\* Mutant: create() keeps the lock while the factory runs
create_unlocks_Never(t) == FALSE

\* GeneratorRegistry::create gives the lock back once the lookup is done
create_unlocks(t) == TRUE

NoOp == [kind |-> "none", name |-> "", fac |-> NoFactory, params |-> <<>>, retry |-> FALSE]
NoRet == [kind |-> "none", name |-> "", ok |-> TRUE, err |-> "", h |-> 0, names |-> {},
          list |-> <<>>, retry |-> FALSE]

\* Overrides create() is called with, and those among them every name and
\* value of which is legal for a new instance of the type
CreateOverrides ==
    { <<>>,
      << <<"array_count", Txt3>> >>,
      << <<"array_count", TxtX>> >>,
      << <<"channels", Txt9>> >> }

GoodOverrides(type) ==
    IF type = "Wrappee" THEN { <<>>, << <<"array_count", Txt3>> >> } ELSE { <<>> }

RegistryOverrides == { <<>>, << <<"channels", Txt9>> >> }

\* create() calls begun and not yet returned
InFlight == {t \in Threads : op[t].kind = "create"}

\* A thread calls a registry operation and takes the lock_guard on the mutex
Begin(t, kind, name, fac, params) ==
    /\ pc[t] = "idle"
    /\ mutex_lock(t)
    /\ holds' = [holds EXCEPT ![t] = TRUE]
    /\ pc' = [pc EXCEPT ![t] = kind]
    /\ op' = [op EXCEPT ![t] =
                [kind |-> kind, name |-> name, fac |-> fac, params |-> params,
                 \* this create() follows a create() of the same name by this
                 \* thread that failed inside the factory
                 retry |-> /\ kind = "create"
                           /\ ret[t].kind = "create" /\ ret[t].err = "Failed"
                           /\ ret[t].name = name]]
    /\ ret' = [ret EXCEPT ![t] = NoRet]
    /\ UNCHANGED <<factories, genVars, extVars>>

RegisterLock(t, name, fac) == Begin(t, "register", name, fac, <<>>)
UnregisterLock(t, name) == Begin(t, "unregister", name, NoFactory, <<>>)
EnumerateLock(t) == Begin(t, "enumerate", "", NoFactory, <<>>)
CreateLock(t, name, params) ==
    /\ Len(gens) + Cardinality(InFlight) < MaxGen
    /\ Begin(t, "create", name, NoFactory, params)

\* The operation returns: the lock_guard goes out of scope
Return(t, r) ==
    /\ holds' = [holds EXCEPT ![t] = FALSE]
    /\ pc' = [pc EXCEPT ![t] = "idle"]
    /\ op' = [op EXCEPT ![t] = NoOp]
    /\ ret' = [ret EXCEPT ![t] = r]

RegisterBody(t) ==
    /\ pc[t] = "register"
    /\ LET r == register_factory(factories, op[t].name, op[t].fac)
       IN  /\ factories' = r.map
           /\ Return(t, [NoRet EXCEPT !.kind = "register", !.name = op[t].name,
                                      !.ok = r.ok, !.err = r.err])
    /\ UNCHANGED <<genVars, extVars>>

UnregisterBody(t) ==
    /\ pc[t] = "unregister"
    /\ LET r == unregister_factory(factories, op[t].name)
       IN  /\ factories' = r.map
           /\ Return(t, [NoRet EXCEPT !.kind = "unregister", !.name = op[t].name,
                                      !.ok = r.ok, !.err = r.err])
    /\ UNCHANGED <<genVars, extVars>>

EnumerateBody(t) ==
    /\ pc[t] = "enumerate"
    /\ Return(t, [NoRet EXCEPT !.kind = "enumerate", !.names = enumerate(factories),
                               !.list = enumerate_vector(factories)])
    /\ UNCHANGED <<factories, genVars, extVars>>

\* The lookup of create(): a missing name fails under the lock; a factory that
\* was found is run after the lock has been given back
CreateLookup(t) ==
    /\ pc[t] = "create"
    /\ LET r == lookup(factories, op[t].name)
       IN  IF r.ok
           THEN /\ holds' = [holds EXCEPT ![t] = ~create_unlocks(t)]
                /\ pc' = [pc EXCEPT ![t] = "factory"]
                /\ op' = [op EXCEPT ![t].fac = r.fac]
                /\ UNCHANGED ret
           ELSE Return(t, [NoRet EXCEPT !.kind = "create", !.name = op[t].name,
                                        !.ok = FALSE, !.err = r.err])
    /\ UNCHANGED <<factories, genVars, extVars>>

\* it->second->create(params), and create() returns what the factory returned
CreateFactory(t) ==
    /\ pc[t] = "factory"
    /\ LET r == SimpleGeneratorFactory_create(gens, op[t].fac, op[t].params)
       IN  /\ gens' = r.heap
           /\ handles' = IF r.ok THEN Append(handles, r.id) ELSE handles
           /\ Return(t, [NoRet EXCEPT !.kind = "create", !.name = op[t].name, !.ok = r.ok,
                                      !.err = IF r.ok THEN "" ELSE "Failed",
                                      !.h = IF r.ok THEN Len(handles) + 1 ELSE 0,
                                      !.retry = op[t].retry])
    /\ UNCHANGED <<factories, lastCall, extVars>>

\* The registry operations a factory may call while create() runs it, and the
\* name and factory it calls them with
NestedKinds == {"enumerate", "register", "create"}
NestedName == "b"
NestedFactory == [create_func |-> "XorImage", wrapper_class_name |-> ""]

\* Position of a thread in a nested call: waiting in mutex.lock(), and under the lock
NestedWait == [enumerate |-> "wait_enumerate", register |-> "wait_register",
               create |-> "wait_create"]
NestedIn == [enumerate |-> "in_enumerate", register |-> "in_register", create |-> "in_create"]

\* Nested create() calls begun and not yet returned
NestedCreates == {t \in Threads : pc[t] \in {"wait_create", "in_create", "inner_factory"}}

\* A thread calls a registry operation and waits in mutex.lock()
RegistryCall(t, kind, name, fac, params) ==
    /\ pc[t] = "idle"
    /\ kind = "create" => Len(gens) + Cardinality(InFlight) + Cardinality(NestedCreates) < MaxGen
    /\ pc' = [pc EXCEPT ![t] = "wait"]
    /\ op' = [op EXCEPT ![t] = [kind |-> kind, name |-> name, fac |-> fac,
                                params |-> params, retry |-> FALSE]]
    /\ ret' = [ret EXCEPT ![t] = NoRet]
    /\ UNCHANGED <<holds, factories, genVars, extVars>>

\* mutex.lock() returns: the thread holds the mutex and runs the operation
Acquire(t) ==
    /\ pc[t] = "wait"
    /\ mutex_lock(t)
    /\ holds' = [holds EXCEPT ![t] = TRUE]
    /\ pc' = [pc EXCEPT ![t] = op[t].kind]
    /\ UNCHANGED <<op, ret, factories, genVars, extVars>>

\* The factory (or the constructor of the generator it makes) that create() is
\* running on thread t calls the registry itself, once: it waits in mutex.lock()
FactoryCalls(t, kind) ==
    /\ pc[t] = "factory"
    /\ ret[t] = NoRet
    /\ kind = "create" => Len(gens) + Cardinality(InFlight) + Cardinality(NestedCreates) < MaxGen
    /\ pc' = [pc EXCEPT ![t] = NestedWait[kind]]
    /\ UNCHANGED <<holds, op, ret, factories, genVars, extVars>>

NestedAcquire(t) ==
    /\ \E k \in NestedKinds : pc[t] = NestedWait[k] /\ pc' = [pc EXCEPT ![t] = NestedIn[k]]
    /\ mutex_lock(t)
    /\ holds' = [holds EXCEPT ![t] = TRUE]
    /\ UNCHANGED <<op, ret, factories, genVars, extVars>>

\* The nested operation under the lock; it returns into the factory, or, for a
\* create() that found its factory, gives the lock back and runs that factory
NestedBody(t) ==
    /\ \E k \in NestedKinds : pc[t] = NestedIn[k]
    /\ LET r == IF pc[t] = NestedIn["register"]
                THEN register_factory(factories, NestedName, NestedFactory)
                ELSE [ok |-> TRUE, err |-> "", map |-> factories]
           l == lookup(factories, NestedName)
           inner == pc[t] = NestedIn["create"] /\ l.ok
       IN  /\ factories' = r.map
           /\ holds' = [holds EXCEPT ![t] = inner /\ ~create_unlocks(t)]
           /\ pc' = [pc EXCEPT ![t] = IF inner THEN "inner_factory" ELSE "factory"]
           /\ ret' = [ret EXCEPT ![t] =
                        IF inner THEN @
                        ELSE [NoRet EXCEPT !.kind = "nested", !.name = NestedName,
                                           !.ok = IF pc[t] = NestedIn["create"] THEN l.ok
                                                  ELSE r.ok,
                                           !.names = enumerate(factories)]]
    /\ UNCHANGED <<op, genVars, extVars>>

\* The factory the nested create() found makes its generator
InnerFactory(t) ==
    /\ pc[t] = "inner_factory"
    /\ LET r == SimpleGeneratorFactory_create(gens, factories[NestedName], <<>>)
       IN  /\ gens' = r.heap
           /\ handles' = IF r.ok THEN Append(handles, r.id) ELSE handles
           /\ ret' = [ret EXCEPT ![t] = [NoRet EXCEPT !.kind = "nested", !.name = NestedName,
                                                      !.ok = r.ok]]
    /\ holds' = [holds EXCEPT ![t] = FALSE]
    /\ pc' = [pc EXCEPT ![t] = "factory"]
    /\ UNCHANGED <<op, factories, lastCall, extVars>>

\* The holder of a created generator builds it, or overrides a value of it
HolderBuildPipeline(h) ==
    /\ gens' = [gens EXCEPT ![handles[h]] = build_pipeline_impl(gens[handles[h]]).g]
    /\ UNCHANGED <<handles, lastCall, regVars, extVars>>

HolderOverrides == << <<"array_count", Txt3>> >>

HolderSetGeneratorParamValues(h) ==
    /\ gens' = [gens EXCEPT ![handles[h]] =
                  set_generator_param_values(gens[handles[h]], HolderOverrides).g]
    /\ UNCHANGED <<handles, lastCall, regVars, extVars>>

----------------------------------------------------------------------------
(* A configuration value used on its own: declared, then set, set from text, *)
(* written as text and read back from its own text                           *)

Txt0 == <<"0">>
Txt5 == <<"5">>
Txt10 == <<"1", "0">>
Txt11 == <<"1", "1">>
TxtSp5 == <<" ", "5">>
Txt5x == <<"5", "x">>
TxtNeg1 == <<"-", "1">>
TxtBig == <<"2", "1", "4", "7", "4", "8", "3", "6", "4", "8">>
TxtNl == <<"\n">>
TxtNul == <<"NUL">>
TxtTrueSp == Append(TextTrue, " ")
TxtBag == <<"b", "a", "g">>
TxtPaper == <<"p", "a", "p", "e", "r">>
TxtPlastic == <<"p", "l", "a", "s", "t", "i", "c">>
TxtGlass == <<"g", "l", "a", "s", "s">>
TxtPaperCap == <<"P", "a", "p", "e", "r">>

\* enum class BagType { Paper, Plastic }
BagType == [Paper |-> 0, Plastic |-> 1]

\* The declarations the model makes.  For bool, lowest() and max() are false and
\* true; they are written 0 and 1 and never read (InRange).
ParamDecls ==
    { [name |-> "level", kind |-> "int", min |-> 0, max |-> 10, enum_map |-> <<>>],
      [name |-> "array_count", kind |-> "int", min |-> IntMin, max |-> IntMax, enum_map |-> <<>>],
      [name |-> "byte", kind |-> "int8", min |-> 0, max |-> 10, enum_map |-> <<>>],
      [name |-> "ascii", kind |-> "int8", min |-> -128, max |-> 127, enum_map |-> <<>>],
      [name |-> "vectorize", kind |-> "bool", min |-> 0, max |-> 1, enum_map |-> <<>>],
      [name |-> "bag_type", kind |-> "enum", min |-> 0, max |-> 0,
       enum_map |-> << <<TxtPaper, BagType.Paper>>, <<TxtPlastic, BagType.Plastic>> >>],
      [name |-> "bag_alias", kind |-> "enum", min |-> 0, max |-> 0,
       enum_map |-> << <<TxtBag, BagType.Paper>>, <<TxtPaper, BagType.Paper>>,
                       <<TxtPlastic, BagType.Plastic>> >>],
      [name |-> "bag_paper", kind |-> "enum", min |-> 0, max |-> 0,
       enum_map |-> << <<TxtPaper, BagType.Paper>> >>] }

\* The values of type T a caller passes to the constructor and to set()
ParamValues(decl) ==
    CASE decl.kind = "bool" -> BOOLEAN
      [] decl.kind = "enum" -> {BagType.Paper, BagType.Plastic}
      [] decl.kind = "int8" -> {0, 9, 10, 11, 32, 53}
      [] OTHER -> {-1, 0, 5, 10, 11}

\* The texts a caller passes to set_from_string()
ParamTexts(decl) ==
    CASE decl.kind = "bool" -> {TextTrue, TextFalse, Txt1, TxtTrueSp}
      [] decl.kind = "enum" -> {TxtPaper, TxtPlastic, TxtGlass, TxtBag, TxtPaperCap, <<>>}
      [] decl.kind = "int8" -> {Txt0, Txt5, Txt10, TxtNl, TxtNul, <<>>}
      [] OTHER -> {Txt0, Txt5, Txt10, Txt11, TxtSp5, Txt5x, TxtNeg1, TxtBig, <<>>}

NoDecl == [name |-> "", kind |-> "none", min |-> 0, max |-> 0, enum_map |-> <<>>]
NoParam == [live |-> FALSE, decl |-> NoDecl, value |-> 0]
NoSet == [op |-> "none", ok |-> TRUE, pre |-> NoParam, arg |-> 0, text |-> <<>>, out |-> <<>>]

CfgIdle == param = NoParam /\ lastSet = NoSet

\* GeneratorParam<T> p{name, value, ...}: a constructor that fails makes no object
Declare(decl, value) ==
    /\ ~param.live
    /\ LET r == GeneratorParam_ctor(decl, value)
       IN  /\ param' = IF r.ok THEN [live |-> TRUE, decl |-> decl, value |-> r.value]
                       ELSE param
           /\ lastSet' = [op |-> "declare", ok |-> r.ok,
                          pre |-> [live |-> FALSE, decl |-> decl, value |-> value],
                          arg |-> value, text |-> <<>>, out |-> <<>>]
    /\ UNCHANGED <<genVars, regVars, md, gio, statics>>

ParamSet(new_value) ==
    /\ param.live
    /\ LET r == GeneratorParam_set(param.decl, param.value, new_value)
       IN  /\ param' = [param EXCEPT !.value = r.value]
           /\ lastSet' = [op |-> "set", ok |-> r.ok, pre |-> param,
                          arg |-> new_value, text |-> <<>>, out |-> <<>>]
    /\ UNCHANGED <<genVars, regVars, md, gio, statics>>

ParamSetFromString(text) ==
    /\ param.live
    /\ LET r == set_from_string(param.decl, param.value, text)
       IN  /\ param' = [param EXCEPT !.value = r.value]
           /\ lastSet' = [op |-> "set_from_string", ok |-> r.ok, pre |-> param,
                          arg |-> 0, text |-> text, out |-> <<>>]
    /\ UNCHANGED <<genVars, regVars, md, gio, statics>>

ParamToString ==
    /\ param.live
    /\ LET r == to_string(param.decl, param.value)
       IN  lastSet' = [op |-> "to_string", ok |-> r.ok, pre |-> param,
                       arg |-> 0, text |-> <<>>, out |-> r.text]
    /\ UNCHANGED <<param, genVars, regVars, md, gio, statics>>

\* p.set_from_string(p.to_string()): the value is read back from its own text
ParamReadBack ==
    /\ param.live
    /\ LET t == to_string(param.decl, param.value)
           r == IF t.ok THEN set_from_string(param.decl, param.value, t.text)
                ELSE [ok |-> FALSE, value |-> param.value]
       IN  /\ param' = [param EXCEPT !.value = r.value]
           /\ lastSet' = [op |-> "read_back", ok |-> r.ok, pre |-> param,
                          arg |-> 0, text |-> t.text, out |-> t.text]
    /\ UNCHANGED <<genVars, regVars, md, gio, statics>>

----------------------------------------------------------------------------
(* Argument descriptors: the Input<> and Output<> members of a generator *)

halide_type_t(code, bits) == [code |-> code, bits |-> bits]

\* An optional scalar: a const halide_scalar_value_t * of a metadata row, or an
\* Expr min_ / max_ of an Input<>.  raw is the value stored in the union.
nullptr == [present |-> FALSE, raw |-> 0]
make_scalar(v) == [present |-> TRUE, raw |-> v]

\* ArgWithParam<T>: a plain value, or a GeneratorParam of the owner (by name,
\* standing for the pointer param_) with the value it had at construction
ArgWithParam(value) == [value |-> value, param |-> ""]
ArgWithParam_of(gp_name, initial) == [value |-> initial, param |-> gp_name]

\* Mutant: the value captured at construction is returned
ArgWithParam_value_Captured(a, gp) == a.value

\* ArgWithParam::value(): param_ ? *param_ : value_
ArgWithParam_value(a, gp) == IF a.param # "" THEN gp[a.param] ELSE a.value

\* GIOBase::array_size(), read with the owner's GeneratorParam values gp
array_size(d, gp) == ArgWithParam_value(d.array_size_, gp)

\* Input<T>{name, def, min, max}: a scalar of an arithmetic type
GeneratorInput_scalar(n, t, def, min, max) ==
    [io |-> "input", name_ |-> n, kind_ |-> "Scalar", is_array |-> FALSE,
     array_size_ |-> ArgWithParam(1), types_ |-> <<t>>, dimensions_ |-> 0,
     def_ |-> def, min_ |-> min, max_ |-> max, has_def |-> TRUE]

\* Input<T>{name, def}: a scalar or a handle with a default
GeneratorInput_def(n, t, def) == GeneratorInput_scalar(n, t, def, nullptr, nullptr)

\* Input<T>{name}: "a default value of 0"; has_def remembers that the
\* declaration named no default (no member of the class holds this)
GeneratorInput_name(n, t) == [GeneratorInput_def(n, t, 0) EXCEPT !.has_def = FALSE]

\* Input<Func>{name, type, dimensions}
GeneratorInput_func(n, t, d) ==
    [io |-> "input", name_ |-> n, kind_ |-> "Function", is_array |-> FALSE,
     array_size_ |-> ArgWithParam(1), types_ |-> <<t>>, dimensions_ |-> d,
     def_ |-> 0, min_ |-> nullptr, max_ |-> nullptr, has_def |-> FALSE]

\* Output<Func>{name, types, dimensions}; Output<T>{name} has dimensions 0
GeneratorOutput(n, types, d) ==
    [io |-> "output", name_ |-> n, kind_ |-> "Function", is_array |-> FALSE,
     array_size_ |-> ArgWithParam(1), types_ |-> types, dimensions_ |-> d,
     def_ |-> 0, min_ |-> nullptr, max_ |-> nullptr, has_def |-> FALSE]

\* The array forms of the constructors: T[kSomeConst] passes
\* ArraySizeArg(std::extent<T>), T[] passes the ArraySizeArg it is given
Array(d, array_size_arg) == [d EXCEPT !.is_array = TRUE, !.array_size_ = array_size_arg]

UInt8 == halide_type_t("uint", 8)
Int8 == halide_type_t("int", 8)
Int16 == halide_type_t("int", 16)
Int32 == halide_type_t("int", 32)
Float32 == halide_type_t("float", 32)
Handle64 == halide_type_t("handle", 64)

GeneratorNames == {"MetadataTester", "Wrappee", "Example", "Defaults", "Clash"}

\* The initial value of GeneratorParam<int> array_count
ArrayCountDefault == 2

\* The ArraySizeArg of a T[] member that is sized by array_count
ArrayCountArg == ArgWithParam_of("array_count", ArrayCountDefault)

\* The members of a generator class, in declaration order.
\* MetadataTester: the generator behind metadata_tester_aottest.cpp (its
\* declarations as the test's call and its expected rows show them; the scalars
\* f32 and f64 are written in units of 1/10000).
MetadataTesterMembers ==
    << GeneratorInput_func("input", UInt8, 3),
       GeneratorInput_def("b", halide_type_t("uint", 1), 1),
       GeneratorInput_scalar("i8", Int8, 8, make_scalar(-8), make_scalar(127)),
       GeneratorInput_scalar("i16", Int16, 16, make_scalar(-16), make_scalar(127)),
       GeneratorInput_scalar("i32", Int32, 32, make_scalar(-32), make_scalar(127)),
       GeneratorInput_scalar("i64", halide_type_t("int", 64), 64,
                             make_scalar(-64), make_scalar(127)),
       GeneratorInput_scalar("u8", UInt8, 80, make_scalar(8), make_scalar(255)),
       GeneratorInput_scalar("u16", halide_type_t("uint", 16), 160,
                             make_scalar(16), make_scalar(2550)),
       GeneratorInput_scalar("u32", halide_type_t("uint", 32), 320,
                             make_scalar(32), make_scalar(2550)),
       GeneratorInput_scalar("u64", halide_type_t("uint", 64), 640,
                             make_scalar(64), make_scalar(2550)),
       GeneratorInput_scalar("f32", Float32, 321234,
                             make_scalar(-32001234), make_scalar(32001234)),
       GeneratorInput_scalar("f64", halide_type_t("float", 64), 642500,
                             make_scalar(-64002500), make_scalar(64002500)),
       GeneratorInput_def("h", Handle64, 0),
       GeneratorInput_func("input_not_nod", UInt8, 3),
       GeneratorInput_func("input_nod", UInt8, 3),
       GeneratorInput_func("input_not", UInt8, 3),
       Array(GeneratorInput_func("array_input", UInt8, 3), ArrayCountArg),
       Array(GeneratorInput_func("array2_input", UInt8, 3), ArgWithParam(2)),
       Array(GeneratorInput_name("array_i8", Int8), ArrayCountArg),
       Array(GeneratorInput_name("array2_i8", Int8), ArgWithParam(2)),
       Array(GeneratorInput_def("array_i16", Int16, 16), ArrayCountArg),
       Array(GeneratorInput_def("array2_i16", Int16, 16), ArgWithParam(2)),
       Array(GeneratorInput_scalar("array_i32", Int32, 32,
                                   make_scalar(-32), make_scalar(127)), ArrayCountArg),
       Array(GeneratorInput_scalar("array2_i32", Int32, 32,
                                   make_scalar(-32), make_scalar(127)), ArgWithParam(2)),
       Array(GeneratorInput_def("array_h", Handle64, 0), ArrayCountArg),
       GeneratorOutput("output", <<Float32, Float32>>, 3),
       GeneratorOutput("output_scalar", <<Float32>>, 0),
       Array(GeneratorOutput("array_outputs", <<Float32>>, 3), ArrayCountArg),
       Array(GeneratorOutput("array_outputs2", <<Float32>>, 3), ArgWithParam(2)),
       Array(GeneratorOutput("array_outputs3", <<Float32>>, 0), ArgWithParam(2)) >>

WrappeeMembers ==
    << Array(GeneratorInput_func("input", UInt8, 3), ArrayCountArg),
       GeneratorInput_scalar("float_arg", Float32, 10000,
                             make_scalar(0), make_scalar(1000000)),
       Array(GeneratorInput_def("int_arg", Int32, 1), ArrayCountArg),
       GeneratorOutput("f", <<UInt8, Float32>>, 3),
       Array(GeneratorOutput("g", <<Int16>>, 2), ArrayCountArg) >>

\* The generator of the specification's metadata ordering example
ExampleMembers ==
    << GeneratorInput_name("count", Int32),
       Array(GeneratorInput_func("pixels", UInt8, 3), ArgWithParam(2)),
       GeneratorOutput("sum", <<Float32>>, 0) >>

\* A scalar with no default beside one with default 0
DefaultsMembers ==
    << GeneratorOutput("out", <<Int32>>, 0),
       GeneratorInput_name("plain", Int32),
       GeneratorInput_def("zero", Int32, 0),
       GeneratorInput_def("one", Int32, 1),
       GeneratorInput_name("ptr", Handle64) >>

\* An array beside a scalar that is named like one of its elements
ClashMembers ==
    << Array(GeneratorInput_name("a", Int32), ArgWithParam(2)),
       GeneratorInput_name("a_0", Int32),
       GeneratorOutput("out", <<Int32>>, 0) >>

Members(gen) ==
    CASE gen = "MetadataTester" -> MetadataTesterMembers
      [] gen = "Wrappee" -> WrappeeMembers
      [] gen = "Example" -> ExampleMembers
      [] gen = "Defaults" -> DefaultsMembers
      [] gen = "XorImage" -> <<>>
      [] OTHER -> ClashMembers

----------------------------------------------------------------------------
(* The metadata record of a generator: halide_filter_metadata_t *)

MaxArrayCount == 3     \* the largest array_count a record is emitted for

\* GIOBase::array_name(i)
array_name(d, i) == d.name_ \o "_" \o ToString(i)

\* The name of component k of a Func that has more than one type
tuple_name(d, k) == d.name_ \o "." \o ToString(k)

argument_kind(d) ==
    IF d.io = "output" THEN "output_buffer"
    ELSE IF d.kind_ = "Scalar" THEN "input_scalar" ELSE "input_buffer"

\* Only a scalar input of an arithmetic type carries def / min / max
HasScalars(d, t) == d.io = "input" /\ d.kind_ = "Scalar" /\ t.code # "handle"

\* One halide_filter_argument_t
Row(name, d, t) ==
    [name |-> name, kind |-> argument_kind(d), dimensions |-> d.dimensions_, type |-> t,
     def |-> IF HasScalars(d, t) THEN make_scalar(d.def_) ELSE nullptr,
     min |-> IF HasScalars(d, t) THEN d.min_ ELSE nullptr,
     max |-> IF HasScalars(d, t) THEN d.max_ ELSE nullptr]

ExpectedRow(name, kind, dimensions, type, def, min, max) ==
    [name |-> name, kind |-> kind, dimensions |-> dimensions, type |-> type,
     def |-> def, min |-> min, max |-> max]

UserContextRow ==
    ExpectedRow("__user_context", "input_scalar", 0, Handle64, nullptr, nullptr, nullptr)

\* Mutant: the elements of an array are numbered from 1
RowsOf_OneBased(d, gp) ==
    IF d.is_array
    THEN [i \in 1 .. array_size(d, gp) |-> Row(array_name(d, i), d, d.types_[1])]
    ELSE IF Len(d.types_) > 1
    THEN [k \in 1 .. Len(d.types_) |-> Row(tuple_name(d, k - 1), d, d.types_[k])]
    ELSE <<Row(d.name_, d, d.types_[1])>>

\* The rows of one member: an array gives one row per element, a Func of
\* several types one row per type, anything else one row
RowsOf(d, gp) ==
    IF d.is_array
    THEN [i \in 1 .. array_size(d, gp) |-> Row(array_name(d, i - 1), d, d.types_[1])]
    ELSE IF Len(d.types_) > 1
    THEN [k \in 1 .. Len(d.types_) |-> Row(tuple_name(d, k - 1), d, d.types_[k])]
    ELSE <<Row(d.name_, d, d.types_[1])>>

\* Mutant: the members are taken in declaration order, inputs and outputs mixed
NextMember_AnyKind(gen, io, from) ==
    LET left == {i \in DOMAIN Members(gen) : i >= from}
    IN  IF left = {} THEN 0 ELSE CHOOSE i \in left : \A j \in left : i <= j

\* The first member of kind io at or after position from; 0 when there is none
NextMember(gen, io, from) ==
    LET left == {i \in DOMAIN Members(gen) : i >= from /\ Members(gen)[i].io = io}
    IN  IF left = {} THEN 0 ELSE CHOOSE i \in left : \A j \in left : i <= j

\* The member of a union that a type of that many bits reads
UnionMember(raw, bits) == IF bits < 32 THEN raw % (2 ^ (IF bits = 1 THEN 8 ELSE bits)) ELSE raw

\* scalar_union_equal of the test: a switch on the type code whose cases fall
\* through to the next code when the inner switch on the bits matches nothing
scalar_union_equal(type_code, type_bits, e, a) ==
    IF type_code = "int" /\ type_bits \in {8, 16, 32, 64}
    THEN UnionMember(e.raw, type_bits) = UnionMember(a.raw, type_bits)
    ELSE IF type_code \in {"int", "uint"} /\ type_bits \in {1, 8, 16, 32, 64}
    THEN UnionMember(e.raw, type_bits) = UnionMember(a.raw, type_bits)
    ELSE IF type_code \in {"int", "uint", "float"} /\ type_bits \in {32, 64}
    THEN e.raw = a.raw
    ELSE IF type_code \in {"int", "uint", "float", "handle"}
    THEN e.raw = a.raw
    ELSE FALSE

\* Mutant: a null pointer is read as a zero value
scalar_union_ptr_equal_NullIsZero(type_code, type_bits, e, a) ==
    scalar_union_equal(type_code, type_bits, e, a)

scalar_union_ptr_equal(type_code, type_bits, e, a) ==
    IF e.present
    THEN IF a.present THEN scalar_union_equal(type_code, type_bits, e, a) ELSE FALSE
    ELSE IF a.present THEN FALSE ELSE TRUE

\* match_argument of the test, with its EXPECT_ macros as a result
match_argument(e, a) ==
    /\ e.name = a.name
    /\ e.dimensions = a.dimensions
    /\ e.kind = a.kind
    /\ e.type.code = a.type.code
    /\ e.type.bits = a.type.bits
    /\ scalar_union_ptr_equal(e.type.code, e.type.bits, e.def, a.def)
    /\ scalar_union_ptr_equal(e.type.code, e.type.bits, e.min, a.min)
    /\ scalar_union_ptr_equal(e.type.code, e.type.bits, e.max, a.max)

\* The table of check_metadata (f32 and f64 in units of 1/10000)
kExpectedArguments ==
    <<
       ExpectedRow("__user_context", "input_scalar", 0, halide_type_t("handle", 64),
                   nullptr, nullptr, nullptr),
       ExpectedRow("input", "input_buffer", 3, halide_type_t("uint", 8),
                   nullptr, nullptr, nullptr),
       ExpectedRow("b", "input_scalar", 0, halide_type_t("uint", 1),
                   make_scalar(1), nullptr, nullptr),
       ExpectedRow("i8", "input_scalar", 0, halide_type_t("int", 8),
                   make_scalar(8), make_scalar(-8), make_scalar(127)),
       ExpectedRow("i16", "input_scalar", 0, halide_type_t("int", 16),
                   make_scalar(16), make_scalar(-16), make_scalar(127)),
       ExpectedRow("i32", "input_scalar", 0, halide_type_t("int", 32),
                   make_scalar(32), make_scalar(-32), make_scalar(127)),
       ExpectedRow("i64", "input_scalar", 0, halide_type_t("int", 64),
                   make_scalar(64), make_scalar(-64), make_scalar(127)),
       ExpectedRow("u8", "input_scalar", 0, halide_type_t("uint", 8),
                   make_scalar(80), make_scalar(8), make_scalar(255)),
       ExpectedRow("u16", "input_scalar", 0, halide_type_t("uint", 16),
                   make_scalar(160), make_scalar(16), make_scalar(2550)),
       ExpectedRow("u32", "input_scalar", 0, halide_type_t("uint", 32),
                   make_scalar(320), make_scalar(32), make_scalar(2550)),
       ExpectedRow("u64", "input_scalar", 0, halide_type_t("uint", 64),
                   make_scalar(640), make_scalar(64), make_scalar(2550)),
       ExpectedRow("f32", "input_scalar", 0, halide_type_t("float", 32),
                   make_scalar(321234), make_scalar(-32001234), make_scalar(32001234)),
       ExpectedRow("f64", "input_scalar", 0, halide_type_t("float", 64),
                   make_scalar(642500), make_scalar(-64002500), make_scalar(64002500)),
       ExpectedRow("h", "input_scalar", 0, halide_type_t("handle", 64),
                   nullptr, nullptr, nullptr),
       ExpectedRow("input_not_nod", "input_buffer", 3, halide_type_t("uint", 8),
                   nullptr, nullptr, nullptr),
       ExpectedRow("input_nod", "input_buffer", 3, halide_type_t("uint", 8),
                   nullptr, nullptr, nullptr),
       ExpectedRow("input_not", "input_buffer", 3, halide_type_t("uint", 8),
                   nullptr, nullptr, nullptr),
       ExpectedRow("array_input_0", "input_buffer", 3, halide_type_t("uint", 8),
                   nullptr, nullptr, nullptr),
       ExpectedRow("array_input_1", "input_buffer", 3, halide_type_t("uint", 8),
                   nullptr, nullptr, nullptr),
       ExpectedRow("array2_input_0", "input_buffer", 3, halide_type_t("uint", 8),
                   nullptr, nullptr, nullptr),
       ExpectedRow("array2_input_1", "input_buffer", 3, halide_type_t("uint", 8),
                   nullptr, nullptr, nullptr),
       ExpectedRow("array_i8_0", "input_scalar", 0, halide_type_t("int", 8),
                   make_scalar(0), nullptr, nullptr),
       ExpectedRow("array_i8_1", "input_scalar", 0, halide_type_t("int", 8),
                   make_scalar(0), nullptr, nullptr),
       ExpectedRow("array2_i8_0", "input_scalar", 0, halide_type_t("int", 8),
                   make_scalar(0), nullptr, nullptr),
       ExpectedRow("array2_i8_1", "input_scalar", 0, halide_type_t("int", 8),
                   make_scalar(0), nullptr, nullptr),
       ExpectedRow("array_i16_0", "input_scalar", 0, halide_type_t("int", 16),
                   make_scalar(16), nullptr, nullptr),
       ExpectedRow("array_i16_1", "input_scalar", 0, halide_type_t("int", 16),
                   make_scalar(16), nullptr, nullptr),
       ExpectedRow("array2_i16_0", "input_scalar", 0, halide_type_t("int", 16),
                   make_scalar(16), nullptr, nullptr),
       ExpectedRow("array2_i16_1", "input_scalar", 0, halide_type_t("int", 16),
                   make_scalar(16), nullptr, nullptr),
       ExpectedRow("array_i32_0", "input_scalar", 0, halide_type_t("int", 32),
                   make_scalar(32), make_scalar(-32), make_scalar(127)),
       ExpectedRow("array_i32_1", "input_scalar", 0, halide_type_t("int", 32),
                   make_scalar(32), make_scalar(-32), make_scalar(127)),
       ExpectedRow("array2_i32_0", "input_scalar", 0, halide_type_t("int", 32),
                   make_scalar(32), make_scalar(-32), make_scalar(127)),
       ExpectedRow("array2_i32_1", "input_scalar", 0, halide_type_t("int", 32),
                   make_scalar(32), make_scalar(-32), make_scalar(127)),
       ExpectedRow("array_h_0", "input_scalar", 0, halide_type_t("handle", 64),
                   nullptr, nullptr, nullptr),
       ExpectedRow("array_h_1", "input_scalar", 0, halide_type_t("handle", 64),
                   nullptr, nullptr, nullptr),
       ExpectedRow("output.0", "output_buffer", 3, halide_type_t("float", 32),
                   nullptr, nullptr, nullptr),
       ExpectedRow("output.1", "output_buffer", 3, halide_type_t("float", 32),
                   nullptr, nullptr, nullptr),
       ExpectedRow("output_scalar", "output_buffer", 0, halide_type_t("float", 32),
                   nullptr, nullptr, nullptr),
       ExpectedRow("array_outputs_0", "output_buffer", 3, halide_type_t("float", 32),
                   nullptr, nullptr, nullptr),
       ExpectedRow("array_outputs_1", "output_buffer", 3, halide_type_t("float", 32),
                   nullptr, nullptr, nullptr),
       ExpectedRow("array_outputs2_0", "output_buffer", 3, halide_type_t("float", 32),
                   nullptr, nullptr, nullptr),
       ExpectedRow("array_outputs2_1", "output_buffer", 3, halide_type_t("float", 32),
                   nullptr, nullptr, nullptr),
       ExpectedRow("array_outputs3_0", "output_buffer", 0, halide_type_t("float", 32),
                   nullptr, nullptr, nullptr),
       ExpectedRow("array_outputs3_1", "output_buffer", 0, halide_type_t("float", 32),
                   nullptr, nullptr, nullptr) >>

kExpectedArgumentCount == Len(kExpectedArguments)

\* check_metadata(md, expect_ucon_at_0) of the test
check_metadata(rec, expect_ucon_at_0) ==
    LET skip == IF expect_ucon_at_0 THEN 0 ELSE 1
    IN  /\ kExpectedArgumentCount - skip = rec.num_arguments
        /\ \A i \in 1 .. rec.num_arguments :
               match_argument(kExpectedArguments[skip + i], rec.rows[i])

NoCmp ==
    [kind |-> "none", i |-> 0, fi |-> "", j |-> 0, fj |-> "", ucon |-> FALSE, equal |-> FALSE]

NoMetadata ==
    [stage |-> "idle", gen |-> "", ucon |-> FALSE, gp |-> [array_count |-> ArrayCountDefault],
     next |-> 0, rows |-> <<>>, origin |-> <<>>, num_arguments |-> 0, cmp |-> NoCmp]

MdIdle == md = NoMetadata

\* Emission starts: the __user_context row comes first when the generator has one
EmitBegin(gen, ucon, count) ==
    /\ md.stage = "idle"
    /\ md' = [md EXCEPT !.stage = "inputs", !.gen = gen, !.ucon = ucon,
                        !.gp = [array_count |-> count], !.next = 1,
                        !.rows = IF ucon THEN <<UserContextRow>> ELSE <<>>,
                        !.origin = IF ucon THEN << <<0, 0>> >> ELSE <<>>]
    /\ UNCHANGED <<genVars, regVars, cfgVars, gio, statics>>

\* The rows of the next member of the current stage are appended
EmitArgument ==
    /\ md.stage \in {"inputs", "outputs"}
    /\ LET io == IF md.stage = "inputs" THEN "input" ELSE "output"
           m == NextMember(md.gen, io, md.next)
       IN  /\ m # 0
           /\ LET rows == RowsOf(Members(md.gen)[m], md.gp)
              IN  md' = [md EXCEPT !.next = m + 1,
                                   !.rows = @ \o rows,
                                   !.origin = @ \o [i \in DOMAIN rows |-> <<m, i - 1>>]]
    /\ UNCHANGED <<genVars, regVars, cfgVars, gio, statics>>

\* No input is left: the outputs follow
EmitOutputs ==
    /\ md.stage = "inputs"
    /\ NextMember(md.gen, "input", md.next) = 0
    /\ md' = [md EXCEPT !.stage = "outputs", !.next = 1]
    /\ UNCHANGED <<genVars, regVars, cfgVars, gio, statics>>

\* No output is left: the record is complete
EmitFinish ==
    /\ md.stage = "outputs"
    /\ NextMember(md.gen, "output", md.next) = 0
    /\ md' = [md EXCEPT !.stage = "done", !.num_arguments = Len(md.rows)]
    /\ UNCHANGED <<genVars, regVars, cfgVars, gio, statics>>

\* A caller compares two optional scalars (def, min or max) of rows of one type
Field(row, f) == CASE f = "def" -> row.def [] f = "min" -> row.min [] OTHER -> row.max

ScalarFields == {"def", "min", "max"}

CompareScalars ==
    /\ md.stage = "done"
    /\ md.cmp.kind = "none"
    /\ \E i, j \in DOMAIN md.rows : \E fi, fj \in ScalarFields :
           /\ i <= j
           /\ md.rows[i].kind = "input_scalar"
           /\ md.rows[i].type = md.rows[j].type
           /\ md' = [md EXCEPT !.cmp =
                       [kind |-> "scalar", i |-> i, fi |-> fi, j |-> j, fj |-> fj, ucon |-> FALSE,
                        equal |-> scalar_union_ptr_equal(
                                      md.rows[i].type.code, md.rows[i].type.bits,
                                      Field(md.rows[i], fi), Field(md.rows[j], fj))]]
    /\ UNCHANGED <<genVars, regVars, cfgVars, gio, statics>>

\* The test checks the record of metadata_tester or metadata_tester_ucon
CheckMetadata(expect_ucon_at_0) ==
    /\ md.stage = "done"
    /\ md.cmp.kind = "none"
    /\ md.gen = "MetadataTester"
    /\ md' = [md EXCEPT !.cmp = [NoCmp EXCEPT !.kind = "check", !.ucon = expect_ucon_at_0,
                                       !.equal = check_metadata(md, expect_ucon_at_0)]]
    /\ UNCHANGED <<genVars, regVars, cfgVars, gio, statics>>

----------------------------------------------------------------------------
(* The descriptors of one instance are bound and read *)

\* The GeneratorParam<int> that sizes the T[] members
ArrayCountDecl == CHOOSE d \in ParamDecls : d.name = "array_count"

NoGioCall == [op |-> "none", m |-> 0, supplied |-> 0, ok |-> TRUE, n |-> 0, gp |-> 0]

\* funcs_ and exprs_ hold, per member, the names of the Funcs and Exprs in the
\* list; latest is the value array_count was last given
NoGio ==
    [live |-> FALSE, gen |-> "", gp |-> [array_count |-> ArrayCountDefault],
     inputs_set |-> FALSE, funcs_ |-> <<>>, exprs_ |-> <<>>,
     latest |-> ArrayCountDefault, call |-> NoGioCall]

GioIdle == gio = NoGio

\* The generator is constructed: its members are declared, every list is empty
Construct(gen) ==
    /\ ~gio.live
    /\ gio' = [NoGio EXCEPT !.live = TRUE, !.gen = gen,
                            !.funcs_ = [m \in DOMAIN Members(gen) |-> <<>>],
                            !.exprs_ = [m \in DOMAIN Members(gen) |-> <<>>]]
    /\ UNCHANGED <<genVars, regVars, cfgVars, md, statics>>

\* array_count.set(new_value): what an override ends in, and what the owner of
\* the GeneratorParam can call at any time
SetArrayCount(new_value) ==
    /\ gio.live
    /\ LET r == GeneratorParam_set(ArrayCountDecl, gio.gp.array_count, new_value)
       IN  gio' = [gio EXCEPT !.gp.array_count = r.value,
                              !.latest = IF r.ok THEN new_value ELSE @,
                              !.call = [NoGioCall EXCEPT !.op = "set", !.ok = r.ok,
                                                         !.n = new_value]]
    /\ UNCHANGED <<genVars, regVars, cfgVars, md, statics>>

\* The names of the elements a bound list holds
Elements(d, n) ==
    IF d.is_array THEN [i \in 1 .. n |-> array_name(d, i - 1)] ELSE <<d.name_>>

\* The values a caller supplies for an input: 1 for a single, supplied for a T[]
Supplied(d, supplied) == IF d.is_array THEN supplied ELSE 1

\* GeneratorBase::set_inputs and init_inputs_and_outputs: every input is given
\* its Funcs or Exprs, every output its Funcs; a count that is not the
\* array_size() of its input is an arity mismatch, and nothing is bound
set_inputs(g, supplied) ==
    LET ms == Members(g.gen)
    IN  IF \E m \in DOMAIN ms :
               ms[m].io = "input" /\ Supplied(ms[m], supplied) # array_size(ms[m], g.gp)
        THEN [ok |-> FALSE, g |-> g]
        ELSE [ok |-> TRUE,
              g |-> [g EXCEPT !.inputs_set = TRUE,
                              !.funcs_ = [m \in DOMAIN ms |->
                                  IF ms[m].kind_ = "Function"
                                  THEN Elements(ms[m], array_size(ms[m], g.gp)) ELSE <<>>],
                              !.exprs_ = [m \in DOMAIN ms |->
                                  IF ms[m].kind_ = "Scalar"
                                  THEN Elements(ms[m], array_size(ms[m], g.gp)) ELSE <<>>]]]

SetInputs(supplied) ==
    /\ gio.live
    /\ ~gio.inputs_set
    /\ LET r == set_inputs(gio, supplied)
       IN  gio' = [r.g EXCEPT !.call = [NoGioCall EXCEPT !.op = "set_inputs", !.ok = r.ok,
                                                          !.supplied = supplied,
                                                          !.gp = gio.gp.array_count]]
    /\ UNCHANGED <<genVars, regVars, cfgVars, md, statics>>

\* GIOBase::funcs(): internal_assert(funcs_.size() == array_size() && exprs_.empty())
funcs(g, m) ==
    /\ Len(g.funcs_[m]) = array_size(Members(g.gen)[m], g.gp)
    /\ g.exprs_[m] = <<>>

\* GIOBase::exprs(): internal_assert(exprs_.size() == array_size() && funcs_.empty())
exprs(g, m) ==
    /\ Len(g.exprs_[m]) = array_size(Members(g.gen)[m], g.gp)
    /\ g.funcs_[m] = <<>>

ReadFuncs(m) ==
    /\ gio.live
    /\ gio' = [gio EXCEPT !.call = [NoGioCall EXCEPT !.op = "funcs", !.m = m,
                                                     !.ok = funcs(gio, m),
                                                     !.n = Len(gio.funcs_[m])]]
    /\ UNCHANGED <<genVars, regVars, cfgVars, md, statics>>

ReadExprs(m) ==
    /\ gio.live
    /\ gio' = [gio EXCEPT !.call = [NoGioCall EXCEPT !.op = "exprs", !.m = m,
                                                     !.ok = exprs(gio, m),
                                                     !.n = Len(gio.exprs_[m])]]
    /\ UNCHANGED <<genVars, regVars, cfgVars, md, statics>>

\* array_size() of a member is read
ReadArraySize(m) ==
    /\ gio.live
    /\ gio' = [gio EXCEPT !.call = [NoGioCall EXCEPT !.op = "array_size", !.m = m,
                                        !.n = array_size(Members(gio.gen)[m], gio.gp)]]
    /\ UNCHANGED <<genVars, regVars, cfgVars, md, statics>>

----------------------------------------------------------------------------
(* RegisterGeneratorAndWrapper<Wrapper>, the class the registration macro uses *)

\* #FULLY_QUALIFIED_WRAPPER_NAME, the text of the template argument
WrapperName == "WrapNS1::WrapNS2::Wrapper"

\* A function-local static before control first passes its declaration
Uninitialized == [initialized |-> FALSE, value |-> "nullptr"]

\* create_func_storage and init_wrapper_class_name_storage; registered lists
\* the create functions of the registrations that have run
NoStatics ==
    [create_func_storage |-> Uninitialized,
     init_wrapper_class_name_storage |-> Uninitialized,
     registered |-> <<>>]

StaticsIdle == statics = NoStatics

\* static T storage = v: the initializer is evaluated by the first call only
InitializeOnce(storage, v) ==
    IF storage.initialized THEN storage ELSE [initialized |-> TRUE, value |-> v]

\* init_create_func(f): the statics after the call; the call returns
\* create_func_storage.value of that state
init_create_func(st, f) ==
    [st EXCEPT !.create_func_storage = InitializeOnce(@, f)]

\* init_wrapper_class_name(n), likewise
init_wrapper_class_name(st, n) ==
    [st EXCEPT !.init_wrapper_class_name_storage = InitializeOnce(@, n)]

\* RegisterGeneratorAndWrapper::create()
RegisterGeneratorAndWrapper_create(st, heap) ==
    LET s1 == init_create_func(st, "nullptr")
        f == s1.create_func_storage.value
    IN  IF f = "nullptr" THEN [ok |-> FALSE, st |-> s1, heap |-> heap, id |-> 0]
        ELSE LET a == create_func(heap, f)
                 s2 == init_wrapper_class_name(s1, "nullptr")
                 r == set_wrapper_class_name(a.heap[a.id],
                                             s2.init_wrapper_class_name_storage.value)
             IN  [ok |-> TRUE, st |-> s2, id |-> a.id,
                  heap |-> [a.heap EXCEPT ![a.id] = r.g]]

\* The constructor RegisterGeneratorAndWrapper(create_func, registry_name,
\* wrapper_class_name)
RegisterGeneratorAndWrapper(st, map, create_fn, registry_name, wrapper_class_name) ==
    LET s1 == init_create_func(st, create_fn)
        s2 == init_wrapper_class_name(s1, wrapper_class_name)
        r == register_factory(map, registry_name,
                              [create_func |-> create_fn,
                               wrapper_class_name |-> wrapper_class_name])
    IN  [ok |-> r.ok, map |-> r.map,
         st |-> [s2 EXCEPT !.registered = Append(@, create_fn)]]

\* A translation unit's static initializer runs a registration
StaticRegister(create_fn, registry_name) ==
    /\ Len(statics.registered) < MaxGen
    /\ LET r == RegisterGeneratorAndWrapper(statics, factories, create_fn, registry_name,
                                            WrapperName)
       IN  /\ statics' = r.st
           /\ factories' = r.map
           /\ lastCall' = [op |-> "RegisterGeneratorAndWrapper", h |-> 0, ok |-> r.ok,
                           pre |-> statics, args |-> <<create_fn, registry_name>>]
    /\ UNCHANGED <<gens, handles, holds, pc, op, ret, cfgVars, md, gio>>

\* Code calls RegisterGeneratorAndWrapper<Wrapper>::create()
StaticCreate ==
    /\ Len(gens) < MaxGen
    /\ LET r == RegisterGeneratorAndWrapper_create(statics, gens)
       IN  /\ statics' = r.st
           /\ gens' = r.heap
           /\ handles' = IF r.ok THEN Append(handles, r.id) ELSE handles
           /\ lastCall' = [op |-> "RegisterGeneratorAndWrapper::create", ok |-> r.ok,
                           h |-> IF r.ok THEN Len(handles) + 1 ELSE 0,
                           pre |-> statics, args |-> <<>>]
    /\ UNCHANGED <<regVars, cfgVars, md, gio>>

----------------------------------------------------------------------------
(* The lifecycle of one instance *)

RegInit ==
    /\ holds = [t \in Threads |-> FALSE]
    /\ pc = [t \in Threads |-> "idle"]
    /\ op = [t \in Threads |-> NoOp]
    /\ ret = [t \in Threads |-> NoRet]

Init ==
    /\ \E type \in GeneratorTypes : gens = <<NewGenerator(type)>>
    /\ handles = <<1>>
    /\ lastCall = NoCall
    /\ factories = [n \in Names |-> NoFactory]
    /\ RegInit
    /\ CfgIdle
    /\ MdIdle
    /\ GioIdle
    /\ StaticsIdle

Next ==
    \/ \E h \in DOMAIN handles : CallGenerate(h)
    \/ \E h \in DOMAIN handles : CallSchedule(h)
    \/ \E h \in DOMAIN handles : BuildPipeline(h)
    \/ \E h \in DOMAIN handles : \E p \in Overrides : SetGeneratorParamValues(h, p)
    \/ \E h \in DOMAIN handles : \E p \in Overrides : WrapperSchedule(h, p)
    \/ \E h \in DOMAIN handles : BuildModule(h)
    \/ \E h \in DOMAIN handles : \E o \in RealizeOverloads : WrapperRealize(h, o)

Spec == Init /\ [][Next]_vars

----------------------------------------------------------------------------
(* A GeneratorWrapper is constructed *)

\* The members of the generator as set_inputs sees them
Descriptors(g) ==
    [NoGio EXCEPT !.live = TRUE, !.gen = g.type, !.gp = g.gp,
                  !.funcs_ = [m \in DOMAIN Members(g.type) |-> <<>>],
                  !.exprs_ = [m \in DOMAIN Members(g.type) |-> <<>>]]

NoWrapper(heap) == [ok |-> FALSE, heap |-> heap, id |-> 0]

\* Mutant: generate() runs as soon as the factory has returned
GeneratorWrapper_GenerateFirst(heap, context_target, generator_factory, generator_params, inputs) ==
    CHOOSE w \in
        { IF ~c.ok THEN NoWrapper(heap)
          ELSE LET r == call_generate_impl(c.heap[c.id])
                   t == [r.g EXCEPT !.gp.target = context_target]
                   b == set_inputs(Descriptors(t), inputs)
               IN  IF ~r.ok \/ ~b.ok THEN NoWrapper(heap)
                   ELSE [ok |-> TRUE, id |-> c.id,
                         heap |-> [c.heap EXCEPT ![c.id] = [t EXCEPT !.inputs_set = TRUE]]]
          : c \in {SimpleGeneratorFactory_create(heap, generator_factory, generator_params)} } :
        TRUE

\* GeneratorWrapper::GeneratorWrapper(context, generator_factory,
\* generator_params, inputs). When a call fails the constructor does not
\* complete, generator__ is destroyed and there is no wrapper. c is what
\* generator_factory(generator_params) returned.
GeneratorWrapper(heap, context_target, generator_factory, generator_params, inputs) ==
    CHOOSE w \in
        { IF ~c.ok THEN NoWrapper(heap)
          ELSE LET t == [c.heap[c.id] EXCEPT !.gp.target = context_target]
                   b == set_inputs(Descriptors(t), inputs)
                   r == call_generate_impl([t EXCEPT !.inputs_set = TRUE])
               IN  IF ~b.ok \/ ~r.ok THEN NoWrapper(heap)
                   ELSE [ok |-> TRUE, id |-> c.id, heap |-> [c.heap EXCEPT ![c.id] = r.g]]
          : c \in {SimpleGeneratorFactory_create(heap, generator_factory, generator_params)} } :
        TRUE

\* The overrides, context targets and input counts wrappers are constructed with
WrapperOverrides ==
    { <<>>,
      << <<"array_count", Txt3>> >>,
      << <<"target", TxtArm>> >>,
      << <<"array_count", Txt3>>, <<"target", TxtHost>> >>,
      << <<"target", TxtNoTarget>> >> }

InputCounts == {ArrayCountDefault, ArrayCountDefault + 1}

WrapperConstruct(fac, params, context_target, inputs) ==
    /\ Len(gens) < MaxGen
    /\ \E w \in {GeneratorWrapper(gens, context_target, fac, params, inputs)} :
           /\ gens' = w.heap
           /\ handles' = IF w.ok THEN Append(handles, w.id) ELSE handles
           /\ lastCall' = [op |-> "GeneratorWrapper", ok |-> w.ok,
                           h |-> IF w.ok THEN Len(handles) + 1 ELSE 0,
                           pre |-> gens,
                           args |-> <<fac, params, context_target, inputs>>]
    /\ UNCHANGED <<regVars, extVars>>

InitWrapper ==
    /\ \E type \in GeneratorTypes : gens = <<NewGenerator(type)>>
    /\ handles = <<1>>
    /\ lastCall = NoCall
    /\ factories = [n \in Names |-> NoFactory]
    /\ RegInit
    /\ CfgIdle
    /\ MdIdle
    /\ GioIdle
    /\ StaticsIdle

NextWrapper ==
    \/ \E fac \in Factories : \E p \in WrapperOverrides : \E t \in Targets :
          \E n \in InputCounts : WrapperConstruct(fac, p, t, n)
    \/ \E h \in DOMAIN handles : CallGenerate(h)
    \/ \E h \in DOMAIN handles : CallSchedule(h)
    \/ \E h \in DOMAIN handles : \E p \in Overrides : WrapperSchedule(h, p)

SpecWrapper == InitWrapper /\ [][NextWrapper]_vars

----------------------------------------------------------------------------
(* Registrations through RegisterGeneratorAndWrapper, and its create() *)

InitStatic ==
    /\ gens = <<>>
    /\ handles = <<>>
    /\ lastCall = NoCall
    /\ factories = [n \in Names |-> NoFactory]
    /\ RegInit
    /\ CfgIdle
    /\ MdIdle
    /\ GioIdle
    /\ StaticsIdle

NextStatic ==
    \/ \E type \in GeneratorTypes : \E n \in Names : StaticRegister(type, n)
    \/ StaticCreate
    \/ \E h \in DOMAIN handles : CallGenerate(h)
    \/ \E h \in DOMAIN handles : BuildPipeline(h)

SpecStatic == InitStatic /\ [][NextStatic]_vars

----------------------------------------------------------------------------
(* A generator class is compiled, and its instance used *)

InitTypes ==
    /\ gens = <<>>
    /\ handles = <<>>
    /\ lastCall = NoCall
    /\ factories = [n \in Names |-> NoFactory]
    /\ RegInit
    /\ CfgIdle
    /\ MdIdle
    /\ GioIdle
    /\ StaticsIdle

NextTypes ==
    \/ \E type \in CandidateTypes : Instantiate(type)
    \/ \E h \in DOMAIN handles : CallGenerate(h)
    \/ \E h \in DOMAIN handles : CallSchedule(h)
    \/ \E h \in DOMAIN handles : BuildPipeline(h)
    \/ \E h \in DOMAIN handles : BuildModule(h)

SpecTypes == InitTypes /\ [][NextTypes]_vars

----------------------------------------------------------------------------
(* The registry used by two threads *)

InitRegistry ==
    /\ gens = <<>>
    /\ handles = <<>>
    /\ lastCall = NoCall
    /\ factories = [n \in Names |-> NoFactory]
    /\ RegInit
    /\ CfgIdle
    /\ MdIdle
    /\ GioIdle
    /\ StaticsIdle

NextRegistry ==
    \/ \E t \in Threads : \E n \in Names : \E f \in Factories : RegisterLock(t, n, f)
    \/ \E t \in Threads : \E n \in Names : UnregisterLock(t, n)
    \/ \E t \in Threads : EnumerateLock(t)
    \/ \E t \in Threads : \E n \in Names : \E p \in RegistryOverrides : CreateLock(t, n, p)
    \/ \E t \in Threads : RegisterBody(t)
    \/ \E t \in Threads : UnregisterBody(t)
    \/ \E t \in Threads : EnumerateBody(t)
    \/ \E t \in Threads : CreateLookup(t)
    \/ \E t \in Threads : CreateFactory(t)

SpecRegistry == InitRegistry /\ [][NextRegistry]_vars

----------------------------------------------------------------------------
(* Two threads creating generators by name, after the static registrations ran *)

InitCreate ==
    /\ gens = <<>>
    /\ handles = <<>>
    /\ lastCall = NoCall
    /\ \E fa, fb \in Factories : factories = [n \in Names |-> IF n = "a" THEN fa ELSE fb]
    /\ RegInit
    /\ CfgIdle
    /\ MdIdle
    /\ GioIdle
    /\ StaticsIdle

NextCreate ==
    \/ \E t \in Threads : \E n \in Names : \E p \in CreateOverrides : CreateLock(t, n, p)
    \/ \E t \in Threads : CreateLookup(t)
    \/ \E t \in Threads : CreateFactory(t)
    \/ \E h \in DOMAIN handles : HolderBuildPipeline(h)
    \/ \E h \in DOMAIN handles : HolderSetGeneratorParamValues(h)

SpecCreate == InitCreate /\ [][NextCreate]_vars

----------------------------------------------------------------------------
(* The registry under fair scheduling: factories that call the registry, and *)
(* an instantiation that takes arbitrarily long                              *)

\* The thread whose factory may run for ever
SlowThread == "t1"

InitLive ==
    /\ gens = <<>>
    /\ handles = <<>>
    /\ lastCall = NoCall
    /\ factories = [n \in Names |-> IF n = "a" THEN CHOOSE f \in Factories : f.create_func = "Wrappee"
                                    ELSE NoFactory]
    /\ RegInit
    /\ CfgIdle
    /\ MdIdle
    /\ GioIdle
    /\ StaticsIdle

NextLive ==
    \/ \E t \in Threads : \E n \in Names : RegistryCall(t, "register", n, NestedFactory, <<>>)
    \/ \E t \in Threads : RegistryCall(t, "enumerate", "", NoFactory, <<>>)
    \/ \E t \in Threads : \E n \in Names : RegistryCall(t, "create", n, NoFactory, <<>>)
    \/ \E t \in Threads : Acquire(t)
    \/ \E t \in Threads : RegisterBody(t)
    \/ \E t \in Threads : EnumerateBody(t)
    \/ \E t \in Threads : CreateLookup(t)
    \/ \E t \in Threads : CreateFactory(t)
    \/ \E t \in Threads : \E k \in NestedKinds : FactoryCalls(t, k)
    \/ \E t \in Threads : NestedAcquire(t)
    \/ \E t \in Threads : NestedBody(t)
    \/ \E t \in Threads : InnerFactory(t)

\* A thread blocked in mutex.lock() gets the mutex if it is free again and
\* again; the registry's own code under the lock, and a factory other than the
\* slow one, run to their end
FairLive ==
    /\ \A t \in Threads :
           /\ SF_vars(Acquire(t))
           /\ SF_vars(NestedAcquire(t))
           /\ WF_vars(RegisterBody(t))
           /\ WF_vars(EnumerateBody(t))
           /\ WF_vars(CreateLookup(t))
           /\ WF_vars(NestedBody(t))
           /\ WF_vars(InnerFactory(t))
    /\ \A t \in Threads \ {SlowThread} : WF_vars(CreateFactory(t))

SpecLive == InitLive /\ [][NextLive]_vars /\ FairLive

----------------------------------------------------------------------------
(* One configuration value, used by its owner *)

InitParam ==
    /\ gens = <<>>
    /\ handles = <<>>
    /\ lastCall = NoCall
    /\ factories = [n \in Names |-> NoFactory]
    /\ RegInit
    /\ CfgIdle
    /\ MdIdle
    /\ GioIdle
    /\ StaticsIdle

NextParam ==
    \/ \E d \in ParamDecls : \E v \in ParamValues(d) : Declare(d, v)
    \/ \E v \in ParamValues(param.decl) : ParamSet(v)
    \/ \E t \in ParamTexts(param.decl) : ParamSetFromString(t)
    \/ ParamToString
    \/ ParamReadBack

SpecParam == InitParam /\ [][NextParam]_vars

----------------------------------------------------------------------------
(* The metadata record of one generator is emitted and checked *)

InitMetadata ==
    /\ gens = <<>>
    /\ handles = <<>>
    /\ lastCall = NoCall
    /\ factories = [n \in Names |-> NoFactory]
    /\ RegInit
    /\ CfgIdle
    /\ MdIdle
    /\ GioIdle
    /\ StaticsIdle

NextMetadata ==
    \/ \E g \in GeneratorNames : \E u \in BOOLEAN : \E c \in 0 .. MaxArrayCount :
           EmitBegin(g, u, c)
    \/ EmitArgument
    \/ EmitOutputs
    \/ EmitFinish
    \/ CompareScalars
    \/ \E u \in BOOLEAN : CheckMetadata(u)

SpecMetadata == InitMetadata /\ [][NextMetadata]_vars

----------------------------------------------------------------------------
(* The descriptors of one generator are declared, bound and read *)

InitDescriptors ==
    /\ gens = <<>>
    /\ handles = <<>>
    /\ lastCall = NoCall
    /\ factories = [n \in Names |-> NoFactory]
    /\ RegInit
    /\ CfgIdle
    /\ MdIdle
    /\ GioIdle
    /\ StaticsIdle

NextDescriptors ==
    \/ \E g \in GeneratorNames : Construct(g)
    \/ \E v \in 0 .. MaxArrayCount : SetArrayCount(v)
    \/ \E k \in 0 .. MaxArrayCount : SetInputs(k)
    \/ \E m \in DOMAIN gio.funcs_ : ReadFuncs(m)
    \/ \E m \in DOMAIN gio.exprs_ : ReadExprs(m)
    \/ \E m \in DOMAIN gio.funcs_ : ReadArraySize(m)

SpecDescriptors == InitDescriptors /\ [][NextDescriptors]_vars

----------------------------------------------------------------------------
(* Lifecycle claims, checked under Spec *)

Target == gens[handles[lastCall.h]]     \* the instance the last call was made on
Phased(g) == ~HasBuildMethod(g.type)

\* C1: on a phased-protocol instance a call_schedule made while generate has
\* not completed fails, the schedule() hook does not run and schedule_called
\* stays false; a call_schedule that succeeds was made after generate completed.
C1_ScheduleNeedsGenerate ==
    (lastCall.op = "call_schedule" /\ Phased(lastCall.pre)) =>
        /\ ~lastCall.pre.generate_called =>
              /\ ~lastCall.ok
              /\ Target.runs["schedule"] = lastCall.pre.runs["schedule"]
              /\ ~Target.schedule_called
        /\ lastCall.ok => lastCall.pre.generate_called

C1_Witness ==
    /\ lastCall.op = "call_schedule"
    /\ Phased(lastCall.pre)
    /\ ~lastCall.pre.generate_called
    /\ ~lastCall.ok

\* C2: on a phased-protocol instance, whatever calls were made before, a
\* call_generate after generate completed fails, a call_schedule after schedule
\* completed fails, and each of the hooks generate() and schedule() has run at
\* most once.
C2_HooksAtMostOnce ==
    /\ \A i \in DOMAIN gens :
          Phased(gens[i]) => gens[i].runs["generate"] <= 1 /\ gens[i].runs["schedule"] <= 1
    /\ (lastCall.op = "call_generate" /\ Phased(lastCall.pre) /\ lastCall.pre.generate_called)
          => ~lastCall.ok /\ Target = lastCall.pre
    /\ (lastCall.op = "call_schedule" /\ Phased(lastCall.pre) /\ lastCall.pre.schedule_called)
          => ~lastCall.ok /\ Target = lastCall.pre

C2_Witness ==
    /\ lastCall.op = "call_generate"
    /\ Phased(lastCall.pre)
    /\ lastCall.pre.generate_called
    /\ lastCall.pre.build_pipeline_called
    /\ ~lastCall.ok

\* C3: for either protocol build_pipeline succeeds at most once per instance: a
\* build_pipeline on an instance whose build has completed fails, returns no
\* second pipeline and leaves the flags and the first pipeline as they were.
C3_BuildAtMostOnce ==
    /\ \A i \in DOMAIN gens : Len(gens[i].pipelines) <= 1
    /\ (lastCall.op = "build_pipeline" /\ lastCall.pre.build_pipeline_called)
          => /\ ~lastCall.ok
             /\ Target.pipelines = lastCall.pre.pipelines
             /\ Target.build_pipeline_called = lastCall.pre.build_pipeline_called
             /\ Target.generate_called = lastCall.pre.generate_called
             /\ Target.schedule_called = lastCall.pre.schedule_called

C3_Witness ==
    /\ lastCall.op = "build_pipeline"
    /\ lastCall.pre.build_pipeline_called
    /\ Len(lastCall.pre.pipelines) = 1
    /\ ~lastCall.ok

\* An override of a declared configuration value that is not a schedule-stage value
Ordinary(g, kv) ==
    Key(kv) \in DOMAIN g.gp /\ ~GeneratorParamDecls(g.type)[Key(kv)].schedule
HasOrdinary(g, params) == \E i \in DOMAIN params : Ordinary(g, params[i])

\* C4: set_generator_param_values succeeds for an ordinary configuration value
\* only on an Unbuilt instance; between generate() and schedule() it succeeds
\* only for schedule-stage values; an ordinary value after generate(), or any
\* value on a Built instance, fails and leaves every configuration value of the
\* instance as it was.
C4_OverridesFrozen ==
    lastCall.op \in {"set_generator_param_values", "wrapper_schedule"} =>
        LET pre == lastCall.pre
            params == lastCall.args
        IN  /\ (lastCall.ok /\ HasOrdinary(pre, params)) => Unbuilt(pre)
            /\ (lastCall.ok /\ ParamsApplied(pre)) =>
                  \A i \in DOMAIN params :
                      /\ Key(params[i]) \in DOMAIN pre.gp
                      /\ GeneratorParamDecls(pre.type)[Key(params[i])].schedule
            /\ ((HasOrdinary(pre, params) /\ ~Unbuilt(pre)) \/ (params # <<>> /\ Built(pre)))
                  => ~lastCall.ok /\ Target.gp = pre.gp

C4_Witness ==
    /\ lastCall.op = "set_generator_param_values"
    /\ ParamsApplied(lastCall.pre)
    /\ HasOrdinary(lastCall.pre, lastCall.args)
    /\ \E i \in DOMAIN lastCall.args : ~Ordinary(lastCall.pre, lastCall.args[i])
    /\ ~lastCall.ok

\* C5: the lifecycle flags never go from true back to false, schedule_called
\* implies generate_called, and on a phased-protocol instance
\* build_pipeline_called implies generate_called and schedule_called.
FlagsOrdered(g) ==
    /\ g.schedule_called => g.generate_called
    /\ (Phased(g) /\ g.build_pipeline_called) => (g.generate_called /\ g.schedule_called)

FlagsKept(g, gNext) ==
    /\ g.generate_called => gNext.generate_called
    /\ g.schedule_called => gNext.schedule_called
    /\ g.build_pipeline_called => gNext.build_pipeline_called

C5_LifecycleMonotonic ==
    /\ [](\A i \in DOMAIN gens : FlagsOrdered(gens[i]))
    /\ [][\A i \in DOMAIN gens : FlagsKept(gens[i], gens'[i])]_vars

C5_Witness ==
    /\ lastCall.op = "call_generate"
    /\ ~lastCall.ok
    /\ Phased(Target)
    /\ Target.build_pipeline_called /\ Target.generate_called /\ Target.schedule_called

----------------------------------------------------------------------------
(* Registry claims, checked under SpecRegistry and SpecCreate *)

MapAccess == {"register", "unregister", "enumerate", "create"}

\* C6: the name->factory map is read or written only by a thread that holds the
\* registry mutex, at most one thread holds the mutex, and create() holds it
\* for the lookup only: it does not hold it while the factory instantiates the
\* generator and applies the overrides.
C6_MutexDiscipline ==
    /\ [](/\ Cardinality({t \in Threads : holds[t]}) <= 1
          /\ \A t \in Threads : pc[t] \in MapAccess => holds[t]
          /\ \A t \in Threads : pc[t] \in {"factory", "idle"} => ~holds[t])
    /\ [][factories' # factories =>
            \E t \in Threads : holds[t] /\ pc[t] \in MapAccess /\ pc'[t] = "idle"]_vars

C6_Witness ==
    \E t, u \in Threads :
        /\ pc[t] = "factory" /\ ~holds[t]
        /\ pc[u] = "register" /\ holds[u]

\* The generator a caller sees through handle h
View(heap, hs, h) == heap[hs[h]]

\* C7: create() calls of two threads for registered names, interleaved in any
\* way, succeed when their overrides are legal, and the generators handed out
\* are independent objects: no two handles name the same object, and a step
\* that builds or overrides one generator changes no other.
C7_IndependentInstances ==
    /\ [](\A h, k \in DOMAIN handles : h # k => handles[h] # handles[k])
    /\ [][/\ \A t \in Threads :
                (/\ pc[t] = "factory" /\ pc'[t] = "idle"
                 /\ op[t].params \in GoodOverrides(op[t].fac.create_func))
                    => /\ ret'[t].ok
                       /\ ret'[t].h \in DOMAIN handles' \ DOMAIN handles
                       /\ View(gens', handles', ret'[t].h).type = op[t].fac.create_func
          /\ Cardinality({h \in DOMAIN handles :
                            View(gens', handles', h) # View(gens, handles, h)}) <= 1]_vars

C7_Witness ==
    /\ ret["t1"].kind = "create" /\ ret["t1"].ok
    /\ ret["t2"].kind = "create" /\ ret["t2"].ok
    /\ ret["t1"].name # ret["t2"].name
    /\ View(gens, handles, ret["t1"].h).build_pipeline_called
    /\ ~View(gens, handles, ret["t2"].h).build_pipeline_called
    /\ View(gens, handles, ret["t1"].h).type = View(gens, handles, ret["t2"].h).type

\* C8: register_factory with a name that is in the registry fails with
\* DuplicateName and leaves the registry as it was: the name keeps its factory
\* and enumerate() lists the same names.
C8_DuplicateRegistration ==
    [][\A t \in Threads :
          (pc[t] = "register" /\ pc'[t] = "idle" /\ op[t].name \in Registered(factories))
              => /\ ~ret'[t].ok
                 /\ ret'[t].err = "DuplicateName"
                 /\ factories'[op[t].name] = factories[op[t].name]
                 /\ factories' = factories
                 /\ enumerate(factories') = enumerate(factories)]_vars

C8_Witness ==
    \E t \in Threads :
        /\ ret[t].kind = "register"
        /\ ~ret[t].ok /\ ret[t].err = "DuplicateName"
        /\ ret[t].name \in Registered(factories)

\* C9: create() with a name that is not in the registry, whether never
\* registered or unregistered since, fails with NotFound, returns no instance,
\* runs no factory and leaves the registry as it was.
C9_CreateUnknownName ==
    [][\A t \in Threads :
          (pc[t] = "create" /\ pc'[t] # "create" /\ op[t].name \notin Registered(factories))
              => /\ pc'[t] = "idle"
                 /\ ~ret'[t].ok /\ ret'[t].err = "NotFound" /\ ret'[t].h = 0
                 /\ gens' = gens /\ handles' = handles
                 /\ factories' = factories]_vars

C9_Witness ==
    \E t, u \in Threads :
        /\ ret[t].kind = "create" /\ ~ret[t].ok /\ ret[t].err = "NotFound"
        /\ ret[u].kind = "unregister" /\ ret[u].name = ret[t].name
        /\ ret[t].name \notin Registered(factories)

\* C10: a create() that fails while the factory instantiates the generator or
\* applies the overrides returns no instance and leaves the registry and every
\* generator handed out before as they were; it fails exactly when an override
\* is illegal, and a later create() of the same name with legal overrides
\* returns a newly made generator.
C10_FailedCreateIsLocal ==
    [][\A t \in Threads :
          (pc[t] = "factory" /\ pc'[t] = "idle") =>
              /\ ret'[t].ok <=> op[t].params \in GoodOverrides(op[t].fac.create_func)
              /\ ~ret'[t].ok =>
                    /\ ret'[t].h = 0
                    /\ handles' = handles
                    /\ factories' = factories
                    /\ \A h \in DOMAIN handles :
                          View(gens', handles', h) = View(gens, handles, h)
              /\ (op[t].retry /\ ret'[t].ok) =>
                    /\ handles' = Append(handles, Len(gens) + 1)
                    /\ ret'[t].h = Len(handles')
                    /\ View(gens', handles', ret'[t].h).type = op[t].fac.create_func
                    /\ Unbuilt(View(gens', handles', ret'[t].h))]_vars

C10_Witness ==
    \E t \in Threads :
        /\ ret[t].kind = "create" /\ ret[t].ok /\ ret[t].retry
        /\ handles # <<>>
        /\ ret[t].h = Len(handles) /\ ret[t].h > 1

----------------------------------------------------------------------------
(* Configuration value claims, checked under SpecParam *)

MapNames(enum_map) == {enum_map[i][1] : i \in DOMAIN enum_map}
MapValues(enum_map) == {enum_map[i][2] : i \in DOMAIN enum_map}
OneToOne(enum_map) ==
    \A i, j \in DOMAIN enum_map : enum_map[i][2] = enum_map[j][2] => i = j

\* A value its declaration allows: inside the bounds, and for an enum one of the table
Legal(p) ==
    /\ p.live
    /\ InRange(p.decl, p.value)
    /\ p.decl.kind = "enum" => p.value \in MapValues(p.decl.enum_map)

\* C11: for an arithmetic value declared with min and max, the constructor,
\* set(v) and set_from_string(decimal text of v) succeed exactly when
\* min <= v <= max, so the current value always lies within [min, max].
C11_BoundsInclusive ==
    LET d == lastSet.pre.decl
    IN  /\ (param.live /\ param.decl.kind \in Arithmetic) =>
               (param.decl.min <= param.value /\ param.value <= param.decl.max)
        /\ d.kind \in Arithmetic =>
            /\ lastSet.op \in {"declare", "set"} =>
                   (lastSet.ok <=> (d.min <= lastSet.arg /\ lastSet.arg <= d.max))
            /\ lastSet.op = "set_from_string" =>
                   \A v \in ParamValues(d) :
                       lastSet.text = IntToText(v) =>
                           (lastSet.ok <=> (d.min <= v /\ v <= d.max))

\* C12: a set or set_from_string that fails leaves the value as it was before
\* the call.
C12_FailedSetKeepsValue ==
    (lastSet.op \in {"set", "set_from_string", "read_back"} /\ ~lastSet.ok) =>
        param = lastSet.pre

C12_Witness ==
    /\ lastSet.op = "set_from_string" /\ ~lastSet.ok
    /\ lastSet.text = Txt5x
    /\ param.live /\ param.decl.name = "level" /\ param.value = 5

\* C13: for every kind and every legal value v, set_from_string(to_string())
\* succeeds and leaves the value equal to v.
C13_RoundTrip ==
    (lastSet.op = "read_back" /\ Legal(lastSet.pre)) =>
        (lastSet.ok /\ param.value = lastSet.pre.value)

C15_EnumValueInTable ==
    /\ (param.live /\ param.decl.kind = "enum") =>
           param.value \in MapValues(param.decl.enum_map)
    /\ (lastSet.op = "to_string" /\ lastSet.pre.decl.kind = "enum") => lastSet.ok

----------------------------------------------------------------------------
(* Metadata claims, checked under SpecMetadata *)

\* The members of the generator the record is of
MemberTable == [g \in GeneratorNames |-> Members(g)]
Declared == MemberTable[md.gen]

\* The member a row was emitted for (0: the __user_context row) and its element
RowMember(i) == md.origin[i][1]
RowElement(i) == md.origin[i][2]
RowsFrom(m) == {i \in DOMAIN md.origin : RowMember(i) = m}

\* 0: the implicit argument, 1: the inputs, 2: the outputs
Section(m) == IF m = 0 THEN 0 ELSE IF Declared[m].io = "input" THEN 1 ELSE 2

Precedes(i, j) ==
    \/ Section(RowMember(i)) < Section(RowMember(j))
    \/ /\ Section(RowMember(i)) = Section(RowMember(j))
       /\ \/ RowMember(i) < RowMember(j)
          \/ RowMember(i) = RowMember(j) /\ RowElement(i) < RowElement(j)

\* The number of rows a member stands for
RowCount(d) ==
    IF d.is_array THEN array_size(d, md.gp) ELSE Len(d.types_)

\* C16: the record lists the __user_context row first iff the generator has
\* one, then every input in declaration order with arrays in ascending index
\* order, then every output likewise; nothing is left out or listed twice;
\* num_arguments is the length of the list; the record the test expects of
\* metadata_tester(_ucon) is the one emitted, the _ucon one with one row more.
C16_ArgumentOrder ==
    /\ md.stage = "done" =>
        /\ md.num_arguments = Len(md.rows)
        /\ Len(md.origin) = Len(md.rows)
        /\ \A i \in DOMAIN md.rows : i > 1 => Precedes(i - 1, i)
        /\ \A i \in DOMAIN md.rows :
               (RowMember(i) = 0) <=> (md.ucon /\ i = 1 /\ md.rows[i] = UserContextRow)
        /\ md.ucon => md.rows # <<>> /\ RowMember(1) = 0
        /\ \A m \in DOMAIN Declared :
               \A e \in 0 .. RowCount(Declared[m]) - 1 :
                   \E i \in DOMAIN md.rows : md.origin[i] = <<m, e>>
    /\ (md.cmp.kind = "check" /\ md.gp.array_count = ArrayCountDefault) =>
        /\ md.cmp.equal <=> (md.cmp.ucon = md.ucon)
        /\ md.num_arguments = kExpectedArgumentCount - (IF md.ucon THEN 0 ELSE 1)
        /\ \A i \in DOMAIN md.rows :
               md.rows[i].name = kExpectedArguments[i + (IF md.ucon THEN 0 ELSE 1)].name

C16_Witness ==
    /\ md.cmp.kind = "check" /\ md.cmp.equal
    /\ md.gen = "MetadataTester" /\ md.ucon
    /\ md.gp.array_count = ArrayCountDefault
    /\ md.num_arguments = kExpectedArgumentCount

\* The rows of member m are like the member: its kind, dimensions and type,
\* and the def / min / max it declares
CarriesMember(i, d) ==
    /\ md.rows[i].kind = argument_kind(d)
    /\ md.rows[i].dimensions = d.dimensions_
    /\ md.rows[i].type = d.types_[1]
    /\ md.rows[i].def.present => md.rows[i].def.raw = d.def_
    /\ md.rows[i].min = (IF md.rows[i].def.present THEN d.min_ ELSE nullptr)
    /\ md.rows[i].max = (IF md.rows[i].def.present THEN d.max_ ELSE nullptr)

ArrayRows(m) ==
    LET d == Declared[m]
        R == RowsFrom(m)
        n == array_size(d, md.gp)
    IN  /\ d.is_array =>
            /\ Cardinality(R) = n
            /\ \A i, j \in R : \A k \in i .. j : k \in R
            /\ \A i \in R :
                   /\ RowElement(i) \in 0 .. n - 1
                   /\ \A j \in R : i < j => RowElement(i) < RowElement(j)
                   /\ md.rows[i].name = d.name_ \o "_" \o ToString(RowElement(i))
                   /\ CarriesMember(i, d)
        /\ (~d.is_array /\ Len(d.types_) = 1) =>
            /\ Cardinality(R) = 1
            /\ \A i \in R : md.rows[i].name = d.name_ /\ CarriesMember(i, d)

NamedLikeElement(m, k) ==
    LET d == Declared[m]
    IN  /\ d.is_array
        /\ \E e \in 0 .. array_size(d, md.gp) - 1 :
               Declared[k].name_ = d.name_ \o "_" \o ToString(e)

\* What holds of C17 whatever the names: the rows of every array and of every
\* single member are as claimed, and two rows have one name only when a member
\* is named like an element of an array member.
C17_ArrayRowsAmended ==
    md.stage = "done" =>
        /\ \A m \in DOMAIN Declared : ArrayRows(m)
        /\ \A i, j \in DOMAIN md.rows :
               (i # j /\ md.rows[i].name = md.rows[j].name) =>
                   /\ RowMember(i) # 0 /\ RowMember(j) # 0
                   /\ \/ NamedLikeElement(RowMember(i), RowMember(j))
                      \/ NamedLikeElement(RowMember(j), RowMember(i))

C17_Witness ==
    /\ md.stage = "done" /\ md.gen = "MetadataTester" /\ md.gp.array_count = 3
    /\ \E i \in DOMAIN md.rows : md.rows[i].name = "array_i32_2"
    /\ \E i \in DOMAIN md.rows : md.rows[i].name = "array2_i32_1"

\* The input a row was emitted for was declared without a default
NoDeclaredDefault(i) ==
    /\ RowMember(i) # 0
    /\ LET d == Declared[RowMember(i)]
       IN  d.io = "input" /\ d.kind_ = "Scalar" /\ ~d.has_def

\* Two values are equal as values of a type of that many bits
EqualAtWidth(type, x, y) ==
    IF type.bits < 32
    THEN (x - y) % (2 ^ (IF type.bits = 1 THEN 8 ELSE type.bits)) = 0
    ELSE x = y

OptionalsEqual(type, e, a) ==
    \/ ~e.present /\ ~a.present
    \/ e.present /\ a.present /\ EqualAtWidth(type, e.raw, a.raw)

ComparedRight ==
    md.cmp.kind = "scalar" =>
        (md.cmp.equal <=> OptionalsEqual(md.rows[md.cmp.i].type,
                                         Field(md.rows[md.cmp.i], md.cmp.fi),
                                         Field(md.rows[md.cmp.j], md.cmp.fj)))

----------------------------------------------------------------------------
(* Descriptor claims, checked under SpecDescriptors *)

GioMembers == MemberTable[gio.gen]

\* The list a member's values are in
OwnList(g, m) ==
    IF GioMembers[m].kind_ = "Function" THEN g.funcs_[m] ELSE g.exprs_[m]
OtherList(g, m) ==
    IF GioMembers[m].kind_ = "Function" THEN g.exprs_[m] ELSE g.funcs_[m]
OwnRead(m) == IF GioMembers[m].kind_ = "Function" THEN "funcs" ELSE "exprs"

\* C19: once the descriptors are bound, and whatever is done to the instance
\* afterwards, the size value included, every descriptor has one list in use,
\* the other empty, the list in use is array_size() long, and funcs() / exprs()
\* on the list in use does not fail.
C19_OneListBound ==
    gio.inputs_set =>
        /\ \A m \in DOMAIN gio.funcs_ :
               /\ OtherList(gio, m) = <<>>
               /\ Len(OwnList(gio, m)) = array_size(GioMembers[m], gio.gp)
        /\ (gio.call.op \in {"funcs", "exprs"} /\ gio.call.op = OwnRead(gio.call.m))
               => gio.call.ok

\* What holds of C19: the same as long as array_count keeps the value it had
\* when the descriptors were bound.
C19_OneListBoundUnchangedSize ==
    (gio.inputs_set /\ \A m \in DOMAIN gio.funcs_ : OwnList(gio, m) # <<>>) =>
        \A m \in DOMAIN gio.funcs_ :
            /\ OtherList(gio, m) = <<>>
            /\ (GioMembers[m].array_size_.param = ""
                    \/ gio.gp.array_count = Len(OwnList(gio, m)))
                   => Len(OwnList(gio, m)) = array_size(GioMembers[m], gio.gp)

\* A member whose size is the GeneratorParam array_count
RuntimeSized(d) == d.is_array /\ d.array_size_.param = "array_count"

\* C20: the count of a runtime-sized descriptor is the value its size
\* configuration value has when the count is read: the value last set, not the
\* one it had at declaration; binding succeeds iff as many values are supplied
\* as that value, and binds that many elements of every descriptor over
\* array_count.
C20_CountIsCurrentValue ==
    /\ (gio.call.op = "array_size" /\ RuntimeSized(GioMembers[gio.call.m]))
           => gio.call.n = gio.latest
    /\ (gio.call.op = "set_inputs"
            /\ \E m \in DOMAIN GioMembers :
                   RuntimeSized(GioMembers[m]) /\ GioMembers[m].io = "input") =>
           /\ gio.call.ok => gio.call.supplied = gio.latest
           /\ (gio.call.supplied = gio.latest
                   /\ \A m \in DOMAIN GioMembers :
                          (GioMembers[m].is_array /\ GioMembers[m].io = "input")
                              => (RuntimeSized(GioMembers[m])
                                      \/ GioMembers[m].array_size_.value = gio.latest))
                  => gio.call.ok
           /\ gio.call.ok =>
                  \A m \in DOMAIN GioMembers :
                      RuntimeSized(GioMembers[m]) => Len(OwnList(gio, m)) = gio.latest

C20_Witness ==
    /\ gio.gen = "Wrappee"
    /\ gio.call.op = "set_inputs" /\ gio.call.ok
    /\ gio.latest = 3
    /\ Len(gio.funcs_[1]) = 3 /\ Len(gio.exprs_[3]) = 3 /\ Len(gio.funcs_[5]) = 3

----------------------------------------------------------------------------
(* Emission and protocol claims, checked under Spec *)

----------------------------------------------------------------------------
(* Protocol claims, checked under SpecTypes *)

OneShot == {"build"}
PhasedMethods == {"generate", "schedule"}

\* C22: a class that defines build() together with generate() or schedule()
\* does not compile, so no instance of it exists; the class of every instance
\* defines build() alone or generate() and schedule() alone; no instance has
\* run both build() and generate() or schedule().
C22_OneProtocol ==
    /\ lastCall.op = "compile" =>
           LET m == Methods(lastCall.args[1])
           IN  /\ ("build" \in m /\ m \cap PhasedMethods # {}) =>
                      (~lastCall.ok /\ \A i \in DOMAIN gens : gens[i].type # lastCall.args[1])
               /\ lastCall.ok <=> (m = OneShot \/ m = PhasedMethods)
    /\ \A i \in DOMAIN gens :
           /\ Methods(gens[i].type) \in {OneShot, PhasedMethods}
           /\ gens[i].runs["build"] > 0 =>
                  (gens[i].runs["generate"] = 0 /\ gens[i].runs["schedule"] = 0)
           /\ (gens[i].runs["generate"] > 0 \/ gens[i].runs["schedule"] > 0) =>
                  gens[i].runs["build"] = 0
           /\ gens[i].runs["build"] > 0 => Methods(gens[i].type) = OneShot
           /\ gens[i].runs["generate"] > 0 => Methods(gens[i].type) = PhasedMethods

C22_Witness ==
    /\ lastCall.op = "compile" /\ ~lastCall.ok
    /\ lastCall.args[1] = "Both"
    /\ \E i \in DOMAIN gens : gens[i].runs["schedule"] > 0

----------------------------------------------------------------------------
(* Wrapper claims, checked under Spec *)

\* The value a text stands for, for the GeneratorParam named n of instance g
Parsed(g, n, text) == set_from_string(GeneratorParamDecls(g.type)[n], g.gp[n], text)

\* Every override names a schedule-stage value of g and gives a text it accepts
GoodScheduleParams(g, params) ==
    \A i \in DOMAIN params :
        /\ Key(params[i]) \in DOMAIN g.gp
        /\ GeneratorParamDecls(g.type)[Key(params[i])].schedule
        /\ Parsed(g, Key(params[i]), Val(params[i])).ok

\* The GeneratorParam values of g with the overrides in place
Overridden(g, params) ==
    [n \in DOMAIN g.gp |->
        IF \E i \in DOMAIN params : Key(params[i]) = n
        THEN Parsed(g, n, Val(params[CHOOSE i \in DOMAIN params : Key(params[i]) = n])).value
        ELSE g.gp[n]]

\* C23: GeneratorWrapper::schedule runs on an instance that has generated; a
\* call with schedule-stage overrides on an instance not yet scheduled succeeds,
\* and the schedule() hook it runs sees the overridden values.
C23_ScheduleSeesOverrides ==
    lastCall.op = "wrapper_schedule" =>
        LET pre == lastCall.pre
            params == lastCall.args
        IN  /\ pre.generate_called
            /\ (ParamsApplied(pre) /\ GoodScheduleParams(pre, params)) => lastCall.ok
            /\ lastCall.ok =>
                   /\ ParamsApplied(pre) /\ GoodScheduleParams(pre, params)
                   /\ Target.schedule_called
                   /\ Target.gp = Overridden(pre, params)
                   /\ Target.schedule_saw = Append(pre.schedule_saw, Overridden(pre, params))

C23_Witness ==
    /\ lastCall.op = "wrapper_schedule" /\ lastCall.ok
    /\ lastCall.pre.gp["vectorize"] = TRUE
    /\ Target.schedule_saw = << [lastCall.pre.gp EXCEPT !["vectorize"] = FALSE] >>

\* C25: GeneratorWrapper::schedule on an instance whose schedule() has run
\* fails and leaves every configuration value as it was.
C25_RescheduleFails ==
    (lastCall.op = "wrapper_schedule" /\ lastCall.pre.schedule_called) =>
        /\ ~lastCall.ok
        /\ Target.gp = lastCall.pre.gp
        /\ Target.schedule_saw = lastCall.pre.schedule_saw

C25_Witness ==
    /\ lastCall.op = "wrapper_schedule" /\ ~lastCall.ok
    /\ lastCall.pre.schedule_called
    /\ lastCall.args = << <<"vectorize", TextFalse>> >>
    /\ Target.gp["vectorize"] = TRUE

----------------------------------------------------------------------------
(* Registry contents, checked under SpecRegistry *)

\* Thread t returns from the operation of that kind in this step
Returns(t, kind) == pc[t] = kind /\ pc'[t] = "idle"

OthersKept(n) == \A m \in Names \ {n} : factories'[m] = factories[m]

RegistryStep ==
    /\ \A t \in Threads : Returns(t, "register") =>
           LET n == op[t].name
           IN  IF n \in Registered(factories)
               THEN ~ret'[t].ok /\ factories' = factories
               ELSE /\ ret'[t].ok
                    /\ factories'[n] = op[t].fac
                    /\ Registered(factories') = Registered(factories) \cup {n}
                    /\ OthersKept(n)
    /\ \A t \in Threads : Returns(t, "unregister") =>
           LET n == op[t].name
           IN  /\ Registered(factories') = Registered(factories) \ {n}
               /\ OthersKept(n)
    /\ \A t \in Threads : Returns(t, "enumerate") =>
           /\ ret'[t].names = Registered(factories)
           /\ Len(ret'[t].list) = Cardinality(Registered(factories))
           /\ {ret'[t].list[i] : i \in DOMAIN ret'[t].list} = Registered(factories)
    /\ (\A t \in Threads : ~Returns(t, "register") /\ ~Returns(t, "unregister"))
           => factories' = factories

\* C24: a registration adds its name, and only when the name is not there; an
\* unregistration takes its name away and no other; nothing else changes the
\* map; enumerate() returns the names in the map, each once.  So the names
\* returned are those registered and not unregistered since, and a name that
\* was unregistered can be registered again.
C24_RegistryContents == [][RegistryStep]_vars

C24_Witness ==
    /\ ret["t1"].kind = "unregister" /\ ret["t1"].name = "a"
    /\ ret["t2"].kind = "register" /\ ret["t2"].name = "a" /\ ret["t2"].ok
    /\ Registered(factories) = {"a", "b"}

----------------------------------------------------------------------------
(* More wrapper claims, checked under Spec *)

\* C26: realize() on a wrapper succeeds exactly when schedule() has run on its
\* generator; when it has not, every overload fails and the output is not
\* touched; an output is realized only after generate() and schedule().
C26_RealizeNeedsSchedule ==
    /\ lastCall.op = "realize" =>
           /\ lastCall.ok <=> lastCall.pre.schedule_called
           /\ ~lastCall.ok => Target = lastCall.pre
           /\ lastCall.ok => (lastCall.pre.generate_called /\ Target.first_output_realized)
    /\ \A i \in DOMAIN gens :
           gens[i].first_output_realized =>
               (gens[i].generate_called /\ gens[i].schedule_called)

C26_Witness ==
    /\ lastCall.op = "realize" /\ ~lastCall.ok
    /\ lastCall.args = <<"dst">>
    /\ lastCall.pre.generate_called /\ ~lastCall.pre.schedule_called
    /\ ~Target.first_output_realized

----------------------------------------------------------------------------
(* Wrapper construction claims, checked under SpecWrapper *)

\* The generator of the wrapper the last constructor call made
Wrapped == gens[handles[lastCall.h]]

\* The GeneratorParam values a new instance of the factory's type has once the
\* overrides other than "target" are applied and target is context_target
ConstructedWith(fac, params, context_target) ==
    [Overridden(NewGenerator(fac.create_func),
                SelectSeq(params, LAMBDA kv : Key(kv) # "target"))
        EXCEPT !["target"] = context_target]

\* C28: a GeneratorWrapper that was constructed has run generate() once and
\* schedule() never; generate() ran with the overrides applied, the target of
\* the context and the inputs bound, and the target is the context's whatever
\* generator_params said about "target".
C28_ConstructionOrder ==
    (lastCall.op = "GeneratorWrapper" /\ lastCall.ok) =>
        LET g == Wrapped
            with == ConstructedWith(lastCall.args[1], lastCall.args[2], lastCall.args[3])
        IN  /\ g.generate_called /\ ~g.schedule_called
            /\ g.runs["generate"] = 1 /\ g.runs["schedule"] = 0
            /\ g.gp.target = lastCall.args[3]
            /\ g.gp = with
            /\ g.generate_saw = << [gp |-> with, inputs_set |-> TRUE] >>
            /\ g.inputs_set

C28_Witness ==
    /\ lastCall.op = "GeneratorWrapper" /\ lastCall.ok
    /\ lastCall.args[2] = << <<"array_count", Txt3>>, <<"target", TxtHost>> >>
    /\ lastCall.args[3] = "arm-32-android"
    /\ Wrapped.gp.target = "arm-32-android"
    /\ Wrapped.generate_saw[1].gp.array_count = 3

\* C29: on a generator that defines build(), call_generate and call_schedule
\* fail and leave the instance as it was, no such instance has generate_called
\* or schedule_called set, and no GeneratorWrapper is constructed over one: the
\* constructor fails and leaves no generator behind.
C29_OneShotHasNoPhases ==
    /\ \A i \in DOMAIN gens :
           HasBuildMethod(gens[i].type) =>
               /\ ~gens[i].generate_called /\ ~gens[i].schedule_called
               /\ gens[i].runs["generate"] = 0 /\ gens[i].runs["schedule"] = 0
    /\ (lastCall.op \in {"call_generate", "call_schedule"}
            /\ HasBuildMethod(lastCall.pre.type)) =>
           (~lastCall.ok /\ gens[handles[lastCall.h]] = lastCall.pre)
    /\ (lastCall.op = "GeneratorWrapper" /\ HasBuildMethod(lastCall.args[1].create_func)) =>
           (~lastCall.ok /\ lastCall.h = 0 /\ gens = lastCall.pre)

C29_Witness ==
    /\ lastCall.op = "GeneratorWrapper" /\ ~lastCall.ok
    /\ lastCall.args[1].create_func = "XorImage"
    /\ lastCall.args[2] = <<>>
    /\ \E i \in DOMAIN gens : HasBuildMethod(gens[i].type)

----------------------------------------------------------------------------
(* Registration claim, checked under SpecStatic *)

\* C27: a RegisterGeneratorAndWrapper<W>::create() made after a registration
\* of W has run succeeds, and returns a generator made by a registered create
\* function that carries the wrapper class name, whatever happened before the
\* registration.
C27_CreateAfterRegistration ==
    (lastCall.op = "RegisterGeneratorAndWrapper::create" /\ lastCall.pre.registered # <<>>) =>
        /\ lastCall.ok
        /\ \E i \in DOMAIN lastCall.pre.registered :
               gens[handles[lastCall.h]].type = lastCall.pre.registered[i]
        /\ gens[handles[lastCall.h]].wrapper_class_name = WrapperName

\* What does hold: create() succeeds exactly when the first call of
\* init_create_func was a registration's, and then returns a generator made
\* by the first registration's create function, with the wrapper class name.
C27_CreateAfterFirstCallRegistered ==
    lastCall.op = "RegisterGeneratorAndWrapper::create" =>
        /\ lastCall.ok <=> (lastCall.pre.create_func_storage.initialized
                             /\ lastCall.pre.create_func_storage.value # "nullptr")
        /\ lastCall.ok =>
               /\ lastCall.pre.registered # <<>>
               /\ gens[handles[lastCall.h]].type = lastCall.pre.registered[1]
               /\ gens[handles[lastCall.h]].wrapper_class_name = WrapperName
        /\ ~lastCall.ok => (gens = <<>> /\ statics.create_func_storage.initialized)

----------------------------------------------------------------------------
(* Progress of the registry, checked under SpecLive *)

\* Positions where a thread is inside the registry's own code or waits for its mutex
InRegistry ==
    {"wait", "register", "enumerate", "create",
     "wait_enumerate", "wait_register", "wait_create",
     "in_enumerate", "in_register", "in_create", "inner_factory"}

====
